---- MODULE Spec2Model ----
(***************************************************************************)
(* Model of the bluebanquise-installer command line tool.                  *)
(*                                                                         *)
(*   Spec      one invocation of the `online` or `offline` command on a    *)
(*             host, stage by stage (cmd/online, cmd/offline).             *)
(*   SpecFile  repeated calls of utils.AppendLineIfMissing on one file.    *)
(*   SpecUser  repeated calls of bootstrap.CreateBluebanquiseUser on one   *)
(*             account database.                                           *)
(*   SpecDownload, SpecStatus  invocations of the `download` and `status`  *)
(*             commands.                                                   *)
(*   SpecInstall  calls of the artifact installers on one account home.    *)
(*   SpecPure  the functions DetectOS and CheckRequirementsPrerequisites   *)
(*             applied to an input.                                        *)
(*                                                                         *)
(* Text is modelled as a sequence of atoms.  File names are split at their *)
(* dots (<<"bb", ".tar", ".gz">>), version strings and file contents are   *)
(* sequences of characters.  A nil error is the empty string.              *)
(***************************************************************************)
EXTENDS Naturals, Integers, Sequences, FiniteSets, TLC

VARIABLES
    \* ---- the command line (package-level flag variables of cmd) ----
    mode,          \* "online" | "offline" | "none"
    flags,         \* collectionsPath, tarballPath, requirementsPath, coreVarsPath, userName, userHome, skipEnvironment
    \* ---- the host as the process finds it ----
    env,           \* euidRoot, python3, internet, osRelease
    host,          \* everything a run can change: PATH tools, packages, accounts, privilege files, home
    host0,         \* the host when the process started
    \* ---- the position of Run and its locals ----
    pc, exitCode, osID, version, packages, postHook,
    trace,         \* the stages executed so far, each with its outcome
    checks,        \* names of the system checks performed so far
    \* ---- AppendLineIfMissing (SpecFile) ----
    file, file0, line, fcalls, ferr,
    \* ---- CreateBluebanquiseUser (SpecUser) ----
    acct, ucall, ucalls,
    \* ---- single operations (SpecDownload, SpecStatus, SpecInstall, SpecPure) ----
    input,         \* the argument the operation is applied to, where the start state fixes it
    calls          \* the operations performed so far: arguments, result, state before and after

vars == <<mode, flags, env, host, host0, pc, exitCode, osID, version, packages,
          postHook, trace, checks, file, file0, line, fcalls, ferr, acct, ucall, ucalls,
          input, calls>>

runVars  == <<mode, flags, env, host, host0, pc, exitCode, osID, version, packages, postHook, trace, checks>>
fileVars == <<file, file0, line, fcalls, ferr>>
userVars == <<acct, ucall, ucalls>>
libVars  == <<input, calls>>

-----------------------------------------------------------------------------
(* Generic text helpers *)

\* strings.HasPrefix / strings.HasSuffix on atom sequences
HasPrefix(s, p) == Len(s) >= Len(p) /\ SubSeq(s, 1, Len(p)) = p
HasSuffix(s, x) == Len(s) >= Len(x) /\ SubSeq(s, Len(s) - Len(x) + 1, Len(s)) = x

\* strings.Contains
Contains(s, x) == \E i \in 1..(Len(s) - Len(x) + 1) : SubSeq(s, i, i + Len(x) - 1) = x

\* the range of a sequence
Range(s) == {s[i] : i \in 1..Len(s)}

-----------------------------------------------------------------------------
(* The file system the operator's path flags point into.  Each path is one *)
(* of the shapes the validators distinguish.                               *)

NoEnt == [exists |-> FALSE, isDir |-> FALSE, name |-> <<>>, entries |-> <<>>]

RegFile(n) == [exists |-> TRUE, isDir |-> FALSE, name |-> n, entries |-> <<>>]
Dir(n, es) == [exists |-> TRUE, isDir |-> TRUE, name |-> n, entries |-> es]
Ent(n, d)  == [name |-> n, isDir |-> d]

FS(path) ==
    CASE path = "/srv/empty"        -> Dir(<<"empty">>, <<>>)
      [] path = "/srv/collections"  -> Dir(<<"collections">>,
                                           << Ent(<<"bb-infra", ".tar", ".gz">>, FALSE),
                                              Ent(<<"notes", ".txt">>, FALSE),
                                              Ent(<<"old", ".tar", ".gz">>, TRUE),
                                              Ent(<<"general", ".tgz">>, FALSE) >>)
      [] path = "/srv/unpacked"     -> Dir(<<"unpacked">>, << Ent(<<"ansible_collections">>, TRUE) >>)
      [] path = "/srv/bb.tgz"       -> RegFile(<<"bb", ".tgz">>)
      [] path = "/srv/notes.txt"    -> RegFile(<<"notes", ".txt">>)
      [] path = "/srv/noreq"        -> Dir(<<"noreq">>, << Ent(<<"ansible", ".whl">>, FALSE) >>)
      [] path = "/srv/requirements" -> Dir(<<"requirements">>,
                                           << Ent(<<"ansible", ".whl">>, FALSE),
                                              Ent(<<"requirements", ".txt">>, FALSE) >>)
      [] path = "/srv/reqonly"      -> Dir(<<"reqonly">>, << Ent(<<"requirements", ".txt">>, FALSE) >>)
      [] path = "/srv/reqsub"       -> Dir(<<"reqsub">>,
                                           << Ent(<<"requirements", ".txt">>, FALSE),
                                              Ent(<<"pkgs", ".whl">>, TRUE) >>)
      [] path = "/srv/reqsrc"       -> Dir(<<"reqsrc">>,
                                           << Ent(<<"README", ".md">>, FALSE),
                                              Ent(<<"requirements", ".txt">>, FALSE),
                                              Ent(<<"ansible", ".tar", ".gz">>, FALSE) >>)
      [] path = "/srv/tgzonly"      -> Dir(<<"tgzonly">>, << Ent(<<"ansible", ".tgz">>, FALSE),
                                                             Ent(<<"jinja2", ".whl">>, FALSE) >>)
      [] path = "/srv/core.yml"     -> RegFile(<<"core", ".yml">>)
      [] path = "/srv/corevars"     -> Dir(<<"corevars">>,
                                           << Ent(<<"bb_core", ".yml">>, FALSE),
                                              Ent(<<"README", ".md">>, FALSE),
                                              Ent(<<"site", ".yaml">>, FALSE),
                                              Ent(<<"hosts", ".yml">>, TRUE) >>)
      [] OTHER                      -> NoEnt

\* os.Stat(filepath.Join(dir, name)) succeeds
HasEntry(dir, n) == \E i \in 1..Len(FS(dir).entries) : FS(dir).entries[i].name = n

TarGz == <<".tar", ".gz">>
Tgz   == <<".tgz">>
Whl   == <<".whl">>

IsTarballName(n) == HasSuffix(n, TarGz) \/ HasSuffix(n, Tgz)
IsPythonPackageName(n) == HasSuffix(n, Whl) \/ HasSuffix(n, TarGz) \/ HasSuffix(n, Tgz)

-----------------------------------------------------------------------------
(* Prerequisite validators (internal/utils) *)

\* CheckOfflinePrerequisites without the emptiness test
CheckOfflinePrerequisites_NoEmptyTest(collectionsPath) ==
    IF ~FS(collectionsPath).exists THEN "collections path does not exist"
    ELSE IF ~FS(collectionsPath).isDir THEN "cannot read collections directory"
    ELSE ""

CheckOfflinePrerequisites(collectionsPath) ==
    IF ~FS(collectionsPath).exists THEN "collections path does not exist"
    ELSE IF ~FS(collectionsPath).isDir THEN "cannot read collections directory"
    ELSE IF Len(FS(collectionsPath).entries) = 0 THEN "collections directory is empty"
    ELSE ""

CheckTarballPrerequisites(tarballPath) ==
    LET info == FS(tarballPath) IN
    IF ~info.exists THEN "tarball path does not exist"
    ELSE IF ~info.isDir
         THEN IF ~IsTarballName(info.name) THEN "file is not a tarball" ELSE ""
    ELSE IF \E i \in 1..Len(info.entries) :
                ~info.entries[i].isDir /\ IsTarballName(info.entries[i].name)
         THEN ""
    ELSE "no tarball files found in directory"

\* CheckRequirementsPrerequisites without the requirements.txt test
CheckRequirementsPrerequisites_NoManifest(requirementsPath) ==
    LET info == FS(requirementsPath) IN
    IF ~info.exists THEN "requirements path does not exist"
    ELSE IF ~info.isDir THEN "cannot read requirements directory"
    ELSE IF \E i \in 1..Len(info.entries) :
                ~info.entries[i].isDir /\ IsPythonPackageName(info.entries[i].name)
         THEN ""
    ELSE "no Python packages found in requirements directory"

CheckRequirementsPrerequisites(requirementsPath) ==
    LET info == FS(requirementsPath) IN
    IF ~info.exists THEN "requirements path does not exist"
    ELSE IF info.isDir /\ ~HasEntry(requirementsPath, <<"requirements", ".txt">>)
         THEN "requirements.txt not found"
    ELSE IF ~info.isDir THEN "cannot read requirements directory"
    ELSE IF \E i \in 1..Len(info.entries) :
                ~info.entries[i].isDir /\ IsPythonPackageName(info.entries[i].name)
         THEN ""
    ELSE "no Python packages found in requirements directory"

\* os.Stat(coreVarsPath) in offlineCmd.Run
StatCoreVars(coreVarsPath) ==
    IF FS(coreVarsPath).exists THEN "" ELSE "no such file or directory"

-----------------------------------------------------------------------------
(* OS fingerprint (internal/system/which_os.go) *)

Quote == "\""

\* strings.Trim(s, "\"")
RECURSIVE TrimLeft(_, _)
TrimLeft(s, c) == IF Len(s) > 0 /\ Head(s) = c THEN TrimLeft(Tail(s), c) ELSE s
RECURSIVE TrimRight(_, _)
TrimRight(s, c) == IF Len(s) > 0 /\ s[Len(s)] = c THEN TrimRight(SubSeq(s, 1, Len(s) - 1), c) ELSE s
Trim(s, c) == TrimRight(TrimLeft(s, c), c)

\* strings.ToLower, on the letters that occur in the modelled descriptors
LowerAtom(a) == CASE a = "S" -> "s" [] a = "T" -> "t" [] a = "R" -> "r"
                  [] a = "E" -> "e" [] a = "A" -> "a" [] a = "M" -> "m" [] OTHER -> a
ToLower(s) == [i \in 1..Len(s) |-> LowerAtom(s[i])]

\* strings.Split(version, ".")[0]
RECURSIVE BeforeFirst(_, _)
BeforeFirst(s, c) == IF Len(s) = 0 \/ Head(s) = c THEN <<>> ELSE <<Head(s)>> \o BeforeFirst(Tail(s), c)

Stream == <<"s", "t", "r", "e", "a", "m">>

OSMappingKeys == {"rhel", "centos", "rocky", "almalinux", "ubuntu", "debian", "opensuse-leap", "sles"}
\* OSMapping without the sles entry's translation
OSMapping_SlesKept(n) ==
    CASE n = "rhel" -> "rhel" [] n = "centos" -> "rhel" [] n = "rocky" -> "rhel"
      [] n = "almalinux" -> "rhel" [] n = "ubuntu" -> "ubuntu" [] n = "debian" -> "debian"
      [] n = "opensuse-leap" -> "opensuse-leap" [] n = "sles" -> "sles"

OSMapping(n) ==
    CASE n = "rhel" -> "rhel" [] n = "centos" -> "rhel" [] n = "rocky" -> "rhel"
      [] n = "almalinux" -> "rhel" [] n = "ubuntu" -> "ubuntu" [] n = "debian" -> "debian"
      [] n = "opensuse-leap" -> "opensuse-leap" [] n = "sles" -> "opensuse-leap"

\* the loop over the descriptor's lines: the last ID= and VERSION_ID= lines win
RECURSIVE ParseOSRelease(_, _, _)
ParseOSRelease(lines, name, ver) ==
    IF Len(lines) = 0 THEN [name |-> name, version |-> ver]
    ELSE LET l == Head(lines) IN
         IF HasPrefix(l, <<"ID=">>)
         THEN ParseOSRelease(Tail(lines), Trim(Tail(l), Quote), ver)
         ELSE IF HasPrefix(l, <<"VERSION_ID=">>)
         THEN ParseOSRelease(Tail(lines), name, Trim(Tail(l), Quote))
         ELSE ParseOSRelease(Tail(lines), name, ver)

\* the identifier is one atom when it is a plain word, and the map is keyed by words
MapName(n) == IF Len(n) = 1 /\ n[1] \in OSMappingKeys THEN <<OSMapping(n[1])>> ELSE n

\* NormalizeVersion that cuts at the first dot for every family
NormalizeVersion_AllFamilies(name, ver) ==
    IF Contains(ToLower(ver), Stream)
    THEN IF Contains(ver, <<"8">>) THEN <<"8">>
         ELSE IF Contains(ver, <<"9">>) THEN <<"9">>
         ELSE ver
    ELSE IF Contains(ver, <<".">>) THEN BeforeFirst(ver, ".") ELSE ver

NormalizeVersion(name, ver) ==
    IF name = <<"rhel">>
    THEN IF Contains(ToLower(ver), Stream)
         THEN IF Contains(ver, <<"8">>) THEN <<"8">>
              ELSE IF Contains(ver, <<"9">>) THEN <<"9">>
              ELSE ver
         ELSE IF Contains(ver, <<".">>) THEN BeforeFirst(ver, ".") ELSE ver
    ELSE ver

DetectOS(osRelease) ==
    IF ~osRelease.readable
    THEN [name |-> <<>>, version |-> <<>>, err |-> "cannot read /etc/os-release"]
    ELSE LET raw  == ParseOSRelease(osRelease.lines, <<>>, <<>>)
             name == MapName(raw.name)
         IN  [name |-> name, version |-> NormalizeVersion(name, raw.version), err |-> ""]

-----------------------------------------------------------------------------
(* Platform capability table (internal/system: DependenciePackages) *)

PackageDefinition(o, v, p, h) == [OSID |-> <<o>>, Version |-> v, Packages |-> p, PostHook |-> h]

DependenciePackages == <<
    PackageDefinition("ubuntu", <<"2","4",".","0","4">>,
        <<"python3.12", "python3.12-pip", "python3.12-venv", "ssh", "curl", "git">>, ""),
    PackageDefinition("ubuntu", <<"2","2",".","0","4">>,
        <<"python3.12", "python3.12-pip", "python3.12-venv", "ssh", "curl", "git">>, ""),
    PackageDefinition("ubuntu", <<"2","0",".","0","4">>,
        <<"build-essential", "zlib1g-dev", "libncurses5-dev", "libgdbm-dev", "libnss3-dev",
          "libssl-dev", "libreadline-dev", "libffi-dev", "libsqlite3-dev", "wget",
          "libbz2-dev", "pkg-config", "ssh", "curl", "git">>, "BuildPython311FromSource"),
    PackageDefinition("rhel", <<"7">>,
        <<"epel-release", "openssh", "centos-release-scl-rh", "centos-release-scl", "rh-python38">>, ""),
    PackageDefinition("rhel", <<"8">>,
        <<"git", "python39", "python3-pip", "python3-policycoreutils", "openssh-clients",
          "python39-setuptools">>, ""),
    PackageDefinition("rhel", <<"9">>,
        <<"git", "python3.12", "python3.12-pip", "python3-policycoreutils", "openssh-clients",
          "python3.12-setuptools">>, ""),
    PackageDefinition("debian", <<"1","1">>,
        <<"python3", "python3-pip", "python3-venv", "git", "ssh", "curl">>, ""),
    PackageDefinition("debian", <<"1","2">>,
        <<"python3.12", "python3.12-pip", "python3.12-venv", "git", "ssh", "curl">>, ""),
    PackageDefinition("opensuse-leap", <<"1","5",".","5">>,
        <<"python3", "python3-pip", "python311", "python311-pip", "git", "openssh", "curl">>,
        "LinkPython311AsDefault"),
    PackageDefinition("opensuse-leap", <<"1","5",".","6">>,
        <<"python3", "python3-pip", "python311", "python311-pip", "git", "openssh", "curl">>,
        "LinkPython311AsDefault") >>

NoDefinition == [OSID |-> <<>>, Version |-> <<>>, Packages |-> <<>>, PostHook |-> ""]

\* the lookup loop of Run: the first entry whose OSID and Version both match
RECURSIVE FindDefinition(_, _, _)
FindDefinition(id, ver, i) ==
    IF i > Len(DependenciePackages) THEN NoDefinition
    ELSE IF DependenciePackages[i].OSID = id /\ DependenciePackages[i].Version = ver
         THEN DependenciePackages[i]
    ELSE FindDefinition(id, ver, i + 1)

-----------------------------------------------------------------------------
(* Package manager driver (internal/utils: detectPackageManager, InstallPackages) *)

\* the candidates with yum probed before dnf
Candidates_YumFirst == <<"apt-get", "yum", "dnf", "zypper">>

Candidates == <<"apt-get", "dnf", "yum", "zypper">>

RECURSIVE FirstOnPath(_, _)
FirstOnPath(tools, i) ==
    IF i > Len(Candidates) THEN ""
    ELSE IF Candidates[i] \in tools THEN Candidates[i]
    ELSE FirstOnPath(tools, i + 1)

detectPackageManager(tools) == FirstOnPath(tools, 1)

ManagerArgs(manager, pkgs) ==
    IF manager = "zypper" THEN <<"--non-interactive", "install">> \o pkgs
    ELSE <<"install", "-y">> \o pkgs

\* h is the host, ok the exit status of the manager invocation, shipped the
\* executables the installed packages and their dependencies put on the search
\* path; every call probes the search path anew
InstallPackages(h, pkgs, ok, shipped) ==
    LET manager == detectPackageManager(h.pathTools) IN
    IF manager = "" THEN [err |-> "no supported package manager found", host |-> h]
    ELSE LET ran == [h EXCEPT !.pkgLog = Append(@, [manager |-> manager, args |-> ManagerArgs(manager, pkgs)])]
         IN  IF ok THEN [err |-> "", host |-> [ran EXCEPT !.installed = @ \cup Range(pkgs),
                                                          !.pathTools = @ \cup shipped]]
             ELSE [err |-> "failed to install packages", host |-> ran]

-----------------------------------------------------------------------------
(* System prerequisites (internal/utils: SystemCheck) *)

checkRootAccess(e, h) == IF e.euidRoot THEN "" ELSE "root access required"
checkPython3(e, h) == IF e.python3 THEN "" ELSE "python3 not found in PATH"
checkPackageManager(e, h) ==
    IF \E i \in 1..Len(Candidates) : Candidates[i] \in h.pathTools THEN ""
    ELSE "no supported package manager found"
checkInternetConnectivity(e, h) == IF e.internet THEN "" ELSE "no internet connectivity detected"

SystemChecks == <<"root access", "python3", "package manager", "internet connectivity">>

RunCheck(name, e, h) ==
    CASE name = "root access" -> checkRootAccess(e, h)
      [] name = "python3" -> checkPython3(e, h)
      [] name = "package manager" -> checkPackageManager(e, h)
      [] name = "internet connectivity" -> checkInternetConnectivity(e, h)

\* the checks are run in order and the first failure ends the loop
RECURSIVE SystemCheckFrom(_, _, _, _)
SystemCheckFrom(i, e, h, done) ==
    IF i > Len(SystemChecks) THEN [err |-> "", performed |-> done]
    ELSE LET r == RunCheck(SystemChecks[i], e, h) IN
         IF r # "" THEN [err |-> r, performed |-> Append(done, SystemChecks[i])]
         ELSE SystemCheckFrom(i + 1, e, h, Append(done, SystemChecks[i]))

SystemCheck(e, h) == SystemCheckFrom(1, e, h, <<>>)

-----------------------------------------------------------------------------
(* Files as byte strings.  A file is absent or holds a sequence of atoms;  *)
(* the atom Big stands for a run of MaxScanTokenSize bytes none of which   *)
(* is a newline or a blank, every other atom for one byte.                 *)

MaxScanTokenSize == 65536        \* bufio.MaxScanTokenSize, the Scanner's buffer limit
Big == "<64KiB>"
NL  == "\n"

Absent == [exists |-> FALSE, data |-> <<>>]
FileOf(d) == [exists |-> TRUE, data |-> d]

AtomLen(a) == IF a = Big THEN MaxScanTokenSize ELSE 1

RECURSIVE ByteLen(_)
ByteLen(s) == IF Len(s) = 0 THEN 0 ELSE AtomLen(Head(s)) + ByteLen(Tail(s))

\* the lines of a byte string: split at newlines, a last unterminated line counts
RECURSIVE SplitLines(_, _)
SplitLines(d, cur) ==
    IF Len(d) = 0 THEN (IF Len(cur) = 0 THEN <<>> ELSE <<cur>>)
    ELSE IF Head(d) = NL THEN <<cur>> \o SplitLines(Tail(d), <<>>)
    ELSE SplitLines(Tail(d), Append(cur, Head(d)))

\* bufio.Scanner with ScanLines: the tokens Scan delivers.  Scan gives up
\* (ErrTooLong) at the first line that does not fit the buffer.
RECURSIVE ScanFrom(_, _)
ScanFrom(ls, i) ==
    IF i > Len(ls) THEN <<>>
    ELSE IF ByteLen(ls[i]) >= MaxScanTokenSize THEN <<>>
    ELSE <<ls[i]>> \o ScanFrom(ls, i + 1)

ScannerTokens(d) == ScanFrom(SplitLines(d, <<>>), 1)

\* strings.TrimSpace
IsSpace(a) == a \in {" ", "\t"}
RECURSIVE TrimSpaceLeft(_)
TrimSpaceLeft(s) == IF Len(s) > 0 /\ IsSpace(Head(s)) THEN TrimSpaceLeft(Tail(s)) ELSE s
RECURSIVE TrimSpaceRight(_)
TrimSpaceRight(s) == IF Len(s) > 0 /\ IsSpace(s[Len(s)]) THEN TrimSpaceRight(SubSeq(s, 1, Len(s) - 1)) ELSE s
TrimSpace(s) == TrimSpaceRight(TrimSpaceLeft(s))

\* the scan loop shared by AppendLineIfMissing and EnsureLineInSudoers
LineFound(f, ln) ==
    /\ f.exists
    /\ \E i \in 1..Len(ScannerTokens(f.data)) : TrimSpace(ScannerTokens(f.data)[i]) = TrimSpace(ln)

\* io is the outcome of opening and writing the file: "ok" or "fail"
AppendLineIfMissing(f, ln, io) ==
    IF io = "fail" THEN [err |-> "failed to open file", file |-> f]
    ELSE IF LineFound(f, ln) THEN [err |-> "", file |-> f]
    ELSE [err |-> "", file |-> FileOf(f.data \o ln \o <<NL>>)]

-----------------------------------------------------------------------------
(* Account provisioner (internal/bootstrap/user.go) *)

FixedId == 377                   \* uid and gid of CreateBluebanquiseUser

GrantRule(userName) == <<userName, " ALL=(ALL:ALL) NOPASSWD:ALL">>

EmptyDB == [groups |-> <<>>, users |-> <<>>, sudoers |-> <<>>, created |-> <<>>]

\* the account database keeps groups and users as sequences of records,
\* privilege files as records (owner name, content)
GroupNames(db) == {db.groups[i].name : i \in 1..Len(db.groups)}
UserNamesOf(db) == {db.users[i].name : i \in 1..Len(db.users)}
GidsOf(db) == {db.groups[i].gid : i \in 1..Len(db.groups)}
UidsOf(db) == {db.users[i].uid : i \in 1..Len(db.users)}

\* getent group NAME / getent passwd NAME exit zero
GetentGroup(db, n) == n \in GroupNames(db)
GetentPasswd(db, n) == n \in UserNamesOf(db)

\* groupadd --gid GID NAME: refuses an empty name, a name and an id already in use
GroupaddOk(db, n, gid, t) == t /\ n # "" /\ n \notin GroupNames(db) /\ gid \notin GidsOf(db)
\* useradd --gid GID --uid UID --create-home --home-dir HOME --shell SH --system NAME
UseraddOk(db, n, uid, gid, home, t) ==
    t /\ n # "" /\ n \notin UserNamesOf(db) /\ home # "" /\ uid \notin UidsOf(db) /\ gid \in GidsOf(db)
\* os.WriteFile("/etc/sudoers.d/" + NAME): with an empty name the path is the directory
WriteSudoersOk(n, t) == t /\ n # ""

PutSudoers(files, n, content) ==
    IF \E i \in 1..Len(files) : files[i].name = n
    THEN [i \in 1..Len(files) |-> IF files[i].name = n THEN [name |-> n, data |-> content] ELSE files[i]]
    ELSE Append(files, [name |-> n, data |-> content])

SudoersFile(db, n) ==
    IF \E i \in 1..Len(db.sudoers) : db.sudoers[i].name = n
    THEN FileOf((CHOOSE r \in Range(db.sudoers) : r.name = n).data)
    ELSE Absent

\* CreateBluebanquiseUser that runs groupadd without asking getent first
CreateBluebanquiseUser_AlwaysGroupadd(db, userName, userHome, t) ==
    LET uid == FixedId
        gid == FixedId
        needGroup == TRUE
        g1 == [db EXCEPT !.groups = Append(@, [name |-> userName, gid |-> gid]),
                         !.created = Append(@, <<"group", userName>>)]
        needUser == ~GetentPasswd(g1, userName)
        u1 == IF needUser
              THEN [g1 EXCEPT !.users = Append(@, [name |-> userName, uid |-> uid, gid |-> gid,
                                                   home |-> userHome, shell |-> "/bin/bash",
                                                   system |-> TRUE]),
                              !.created = Append(@, <<"user", userName>>)]
              ELSE g1
    IN  IF needGroup /\ ~GroupaddOk(db, userName, gid, t.groupadd)
        THEN [err |-> "failed to create group", db |-> db]
        ELSE IF needUser /\ ~UseraddOk(g1, userName, uid, gid, userHome, t.useradd)
        THEN [err |-> "failed to create user", db |-> g1]
        ELSE IF ~WriteSudoersOk(userName, t.write)
        THEN [err |-> "failed to write sudoers file", db |-> u1]
        ELSE [err |-> "", db |-> [u1 EXCEPT !.sudoers = PutSudoers(@, userName, GrantRule(userName) \o <<NL>>)]]

\* t holds the exit status the environment gives groupadd, useradd and the file write
CreateBluebanquiseUser(db, userName, userHome, t) ==
    LET uid == FixedId
        gid == FixedId
        needGroup == ~GetentGroup(db, userName)
        g1 == IF needGroup
              THEN [db EXCEPT !.groups = Append(@, [name |-> userName, gid |-> gid]),
                              !.created = Append(@, <<"group", userName>>)]
              ELSE db
        needUser == ~GetentPasswd(g1, userName)
        u1 == IF needUser
              THEN [g1 EXCEPT !.users = Append(@, [name |-> userName, uid |-> uid, gid |-> gid,
                                                   home |-> userHome, shell |-> "/bin/bash",
                                                   system |-> TRUE]),
                              !.created = Append(@, <<"user", userName>>)]
              ELSE g1
    IN  IF needGroup /\ ~GroupaddOk(db, userName, gid, t.groupadd)
        THEN [err |-> "failed to create group", db |-> db]
        ELSE IF needUser /\ ~UseraddOk(g1, userName, uid, gid, userHome, t.useradd)
        THEN [err |-> "failed to create user", db |-> g1]
        ELSE IF ~WriteSudoersOk(userName, t.write)
        THEN [err |-> "failed to write sudoers file", db |-> u1]
        ELSE [err |-> "", db |-> [u1 EXCEPT !.sudoers = PutSudoers(@, userName, GrantRule(userName) \o <<NL>>)]]

ToolOutcomes == [groupadd : BOOLEAN, useradd : BOOLEAN, write : BOOLEAN]

-----------------------------------------------------------------------------
(* The host state a run can change *)

FreshHome == [exists |-> FALSE, bashrc |-> Absent, venv |-> "", venvLog |-> <<>>, pip |-> <<>>,
              sshDir |-> FALSE, sshKey |-> FALSE, authorizedKeys |-> Absent,
              bbDir |-> FALSE, collectionsDir |-> FALSE, galaxy |-> <<>>,
              groupVarsDir |-> FALSE, groupVars |-> <<>>]

FreshHost(tools) == [pathTools |-> tools, pkgLog |-> <<>>, installed |-> {}, hookLog |-> <<>>,
                     db |-> EmptyDB, home |-> FreshHome]

Ok(h) == [err |-> "", host |-> h]
Fail(e, h) == [err |-> e, host |-> h]

-----------------------------------------------------------------------------
(* Environment file mutator and runtime environment builder               *)
(* (internal/utils, internal/bootstrap/environment.go)                     *)

SudoersPath == "bluebanquise"    \* EnsureLineInSudoers always edits /etc/sudoers.d/bluebanquise
EnvKeepRule == <<"Defaults env_keep += \"PYTHONPATH\"">>

EnsureLineInSudoers(db, ln, io) ==
    LET r == AppendLineIfMissing(SudoersFile(db, SudoersPath), ln, io) IN
    [err |-> r.err,
     db  |-> IF r.file.exists THEN [db EXCEPT !.sudoers = PutSudoers(@, SudoersPath, r.file.data)] ELSE db]

RHPython38Lines == <<
    "export LD_LIBRARY_PATH=/opt/rh/rh-python38/root/usr/lib64:$LD_LIBRARY_PATH",
    "export MANPATH=/opt/rh/rh-python38/root/usr/share/man:$MANPATH",
    "export PATH=/opt/rh/rh-python38/root/usr/local/bin:/opt/rh/rh-python38/root/usr/bin:$PATH",
    "export PKG_CONFIG_PATH=/opt/rh/rh-python38/root/usr/lib64/pkgconfig:$PKG_CONFIG_PATH",
    "export XDG_DATA_DIRS=/opt/rh/rh-python38/root/usr/share:$XDG_DATA_DIRS",
    "export X_SCLS=\"rh-python38 \"" >>

RECURSIVE JoinLines(_)
JoinLines(ls) == IF Len(ls) = 0 THEN <<>> ELSE <<Head(ls), NL>> \o JoinLines(Tail(ls))

\* opens .bashrc in append mode and writes the six lines, whatever the file holds
ExportRHPython38(f, io) ==
    IF io = "fail" THEN [err |-> "failed to open .bashrc", file |-> f]
    ELSE [err |-> "", file |-> FileOf(f.data \o JoinLines(RHPython38Lines))]

\* the interpreter createVirtualEnvironment / ConfigureEnvironment select
PythonCmd(id, ver) ==
    IF id = <<"rhel">>
    THEN CASE ver = <<"7">> -> "/opt/rh/rh-python38/root/usr/bin/python3"
           [] ver = <<"8">> -> "/usr/bin/python3.9"
           [] ver = <<"9">> -> "/usr/bin/python3.12"
           [] OTHER -> "/usr/bin/python3"
    ELSE IF id = <<"opensuse-leap">> THEN "/usr/bin/python3.11"
    ELSE "/usr/bin/python3"

PythonRequirements == <<"ansible", "ansible-core", "netaddr", "clustershell", "jmespath", "jinja2", "pymysql">>

ExportLines(userHome) ==
    << <<"source ", userHome, "/ansible_venv/bin/activate">>,
       <<"export ANSIBLE_CONFIG=$HOME/bluebanquise/ansible.cfg">> >>

OwnPubKey == <<"ssh-ed25519 OWN", NL>>

\* contains(slice, item) of utils: true when slice ends with item
contains(slice, item) == HasSuffix(slice, item)

\* ConfigureSSH; a failure is the failure of ssh-keygen when there is no key yet
\* and of the access to authorized_keys otherwise
ConfigureSSH(hm, ok) ==
    LET d == [hm EXCEPT !.sshDir = TRUE] IN
    IF ~d.sshKey /\ ~ok THEN [err |-> "failed to generate SSH key", home |-> d]
    ELSE IF ~ok THEN [err |-> "failed to read authorized_keys", home |-> d]
    ELSE LET k == [d EXCEPT !.sshKey = TRUE] IN
         IF ~k.authorizedKeys.exists
         THEN [err |-> "", home |-> [k EXCEPT !.authorizedKeys = FileOf(OwnPubKey)]]
         ELSE IF ~contains(k.authorizedKeys.data, OwnPubKey)
         THEN [err |-> "", home |-> [k EXCEPT !.authorizedKeys = FileOf(@.data \o OwnPubKey)]]
         ELSE [err |-> "", home |-> k]

\* the front-end of the runtime environment, <home>/ansible_venv/bin/pip
VenvPip == "ansible_venv/bin/pip"

\* pip install --no-index --find-links DIR -r DIR/requirements.txt
OfflineArgs(requirementsPath) ==
    <<"install", "--no-index", "--find-links", requirementsPath, "-r", <<requirementsPath, "requirements.txt">>>>

\* InstallRequirementsOffline (internal/utils/python.go): runs <venv>/bin/pip
InstallRequirementsOffline(h, requirementsPath, ok) ==
    IF ~FS(requirementsPath).exists THEN Fail("requirements path does not exist", h)
    ELSE IF ~HasEntry(requirementsPath, <<"requirements", ".txt">>) THEN Fail("requirements.txt not found", h)
    ELSE LET ran == [h EXCEPT !.home.pip = Append(@, [cmd |-> VenvPip, args |-> OfflineArgs(requirementsPath)])]
         IN  IF ok THEN Ok(ran) ELSE Fail("failed to install requirements offline", ran)

\* GetPythonCommand: the interpreter of the host's platform; on rhel 9 the first
\* of five candidates that exists; the chosen path must exist
RHEL9Pythons == <<"/usr/bin/python3.12", "/usr/bin/python3.11", "/usr/bin/python3.10",
                  "/usr/bin/python3.9", "/usr/bin/python3">>

GetPythonCommand(osRelease, interpreters) ==
    LET os == DetectOS(osRelease) IN
    IF os.err # "" THEN [cmd |-> "", err |-> os.err]
    ELSE LET found == {i \in 1..Len(RHEL9Pythons) : RHEL9Pythons[i] \in interpreters}
             pythonCmd ==
                 IF os.name = <<"rhel">>
                 THEN CASE os.version = <<"7">> -> "/opt/rh/rh-python38/root/usr/bin/python3"
                        [] os.version = <<"8">> -> "/usr/bin/python3.9"
                        [] os.version = <<"9">> ->
                             IF found = {} THEN "/usr/bin/python3"
                             ELSE RHEL9Pythons[CHOOSE i \in found : \A j \in found : i <= j]
                        [] OTHER -> "/usr/bin/python3"
                 ELSE IF os.name = <<"opensuse-leap">> THEN "/usr/bin/python3.11"
                 ELSE "/usr/bin/python3"
         IN  IF pythonCmd \notin interpreters THEN [cmd |-> "", err |-> "no such file or directory"]
             ELSE [cmd |-> pythonCmd, err |-> ""]

\* InstallRequirementsOffline in the form that asks GetPythonCommand for the
\* interpreter and runs <interpreter> -m pip; venvPath is only logged
InstallRequirementsOfflinePython(h, requirementsPath, osRelease, interpreters, ok) ==
    IF ~FS(requirementsPath).exists THEN Fail("requirements path does not exist", h)
    ELSE IF ~HasEntry(requirementsPath, <<"requirements", ".txt">>) THEN Fail("requirements.txt not found", h)
    ELSE IF ~FS(requirementsPath).isDir THEN Fail("cannot read requirements directory", h)
    ELSE LET py == GetPythonCommand(osRelease, interpreters) IN
         IF py.err # "" THEN Fail("failed to get Python command", h)
         ELSE LET ran == [h EXCEPT !.home.pip =
                             Append(@, [cmd |-> py.cmd,
                                        args |-> <<"-m", "pip">> \o OfflineArgs(requirementsPath)])]
              IN  IF ok THEN Ok(ran) ELSE Fail("failed to install requirements offline", ran)

\* InstallRequirements: <venv>/bin/pip install --upgrade pip <requirements>
InstallRequirements(h, ok) ==
    LET ran == [h EXCEPT !.home.pip =
                   Append(@, [cmd |-> VenvPip, args |-> <<"install", "--upgrade", "pip">> \o PythonRequirements])]
    IN  IF ok THEN Ok(ran) ELSE Fail("failed to install python packages", ran)

\* <pythonCmd> -m venv <home>/ansible_venv; home.venvLog keeps the interpreter of
\* every creation command, home.venv the one the environment was made with
CreateVenv(h, pythonCmd, ok) ==
    LET ran == [h EXCEPT !.home.venvLog = Append(@, pythonCmd)] IN
    IF ok THEN Ok([ran EXCEPT !.home.venv = pythonCmd])
    ELSE Fail("failed to create virtualenv", ran)

\* the steps of the builders that run /usr/bin/python3 on every platform
\* (environment.go, second form of ConfigureEnvironment / ConfigureEnvironmentOffline)
EnvironmentStepsGeneric(m, id, ver, requirementsPath) ==
    (IF id = <<"rhel">> /\ ver = <<"7">> THEN <<"ExportRHPython38">> ELSE <<>>)
    \o <<"InstallPackages python3", "InstallPackages python3-venv", "venv /usr/bin/python3">>
    \o (IF m = "online" THEN <<"InstallRequirements">>
        ELSE IF requirementsPath # "" THEN <<"InstallRequirementsOffline">> ELSE <<>>)
    \o <<"bashrc1", "bashrc2", "EnsureLineInSudoers", "ConfigureSSH", "MkdirAll">>

\* the steps of ConfigureEnvironment (online) and ConfigureEnvironmentOffline, in order
EnvironmentSteps(m, id, ver, requirementsPath) ==
    (IF id = <<"rhel">> /\ ver = <<"7">> THEN <<"ExportRHPython38">> ELSE <<>>)
    \o <<"InstallPackages", "venv">>
    \o (IF m = "online" THEN <<"InstallRequirements">>
        ELSE IF requirementsPath # "" THEN <<"InstallRequirementsOffline">> ELSE <<>>)
    \o <<"bashrc1", "bashrc2", "EnsureLineInSudoers", "ConfigureSSH", "MkdirAll">>

\* one step of the environment builder on host h; ok is the outcome the
\* environment gives the step's external command or file access
EnvironmentStep(step, h, ok, c) ==
    LET os  == DetectOS(c.osRelease)
        def == FindDefinition(os.name, os.version, 1)
        io  == IF ok THEN "ok" ELSE "fail"
    IN
    CASE step = "ExportRHPython38" ->
           LET r == ExportRHPython38(h.home.bashrc, io) IN
           [err |-> r.err, host |-> [h EXCEPT !.home.bashrc = r.file]]
      [] step = "InstallPackages" ->
           IF Len(def.Packages) = 0 THEN Fail("no package definition found", h)
           ELSE InstallPackages(h, def.Packages, ok, {})
      [] step = "venv" ->
           CreateVenv(h, PythonCmd(os.name, os.version), ok)
      [] step = "InstallPackages python3" ->
           InstallPackages(h, <<"python3", "python3-venv">>, ok, {})
      [] step = "InstallPackages python3-venv" ->
           IF h.home.venv = "" THEN InstallPackages(h, <<"python3-venv">>, ok, {}) ELSE Ok(h)
      [] step = "venv /usr/bin/python3" ->
           CreateVenv(h, "/usr/bin/python3", ok)
      [] step = "InstallRequirements" -> InstallRequirements(h, ok)
      [] step = "InstallRequirementsOffline" -> InstallRequirementsOffline(h, c.requirementsPath, ok)
      [] step = "bashrc1" ->
           LET r == AppendLineIfMissing(h.home.bashrc, ExportLines(c.userHome)[1], io) IN
           [err |-> r.err, host |-> [h EXCEPT !.home.bashrc = r.file]]
      [] step = "bashrc2" ->
           LET r == AppendLineIfMissing(h.home.bashrc, ExportLines(c.userHome)[2], io) IN
           [err |-> r.err, host |-> [h EXCEPT !.home.bashrc = r.file]]
      [] step = "EnsureLineInSudoers" ->
           LET r == EnsureLineInSudoers(h.db, EnvKeepRule, io) IN
           [err |-> r.err, host |-> [h EXCEPT !.db = r.db]]
      [] step = "ConfigureSSH" ->
           LET r == ConfigureSSH(h.home, ok) IN
           [err |-> r.err, host |-> [h EXCEPT !.home = r.home]]
      [] step = "MkdirAll" ->
           IF ok THEN Ok([h EXCEPT !.home.bbDir = TRUE])
           ELSE Fail("failed to create bluebanquise directory", h)

\* the steps run in order; the first error ends the builder
RECURSIVE RunEnvironment(_, _, _, _, _)
RunEnvironment(steps, i, h, failAt, c) ==
    IF i > Len(steps) THEN Ok(h)
    ELSE LET r == EnvironmentStep(steps[i], h, failAt # i, c) IN
         IF r.err # "" THEN r ELSE RunEnvironment(steps, i + 1, r.host, failAt, c)

ConfigureEnvironment(h, c, failAt) ==
    IF DetectOS(c.osRelease).err # "" THEN Fail("failed to detect OS", h) ELSE
    RunEnvironment(EnvironmentSteps("online", DetectOS(c.osRelease).name, DetectOS(c.osRelease).version, ""),
                   1, h, failAt, c)

ConfigureEnvironmentOffline(h, c, failAt) ==
    IF DetectOS(c.osRelease).err # "" THEN Fail("failed to detect OS", h) ELSE
    RunEnvironment(EnvironmentSteps("offline", DetectOS(c.osRelease).name, DetectOS(c.osRelease).version,
                                    c.requirementsPath),
                   1, h, failAt, c)

\* ConfigureEnvironment / ConfigureEnvironmentOffline in the form that installs
\* python3 and python3-venv and creates the environment with /usr/bin/python3
ConfigureEnvironmentGeneric(h, c, m, failAt) ==
    IF DetectOS(c.osRelease).err # "" THEN Fail("failed to detect OS", h) ELSE
    RunEnvironment(EnvironmentStepsGeneric(m, DetectOS(c.osRelease).name, DetectOS(c.osRelease).version,
                                           c.requirementsPath),
                   1, h, failAt, c)

-----------------------------------------------------------------------------
(* Artifact installer (internal/bootstrap/collections.go) *)

\* the entries of a directory the install loop hands to ansible-galaxy
RECURSIVE TarballsOf(_, _)
TarballsOf(es, i) ==
    IF i > Len(es) THEN <<>>
    ELSE IF ~es[i].isDir /\ IsTarballName(es[i].name) THEN <<es[i].name>> \o TarballsOf(es, i + 1)
    ELSE TarballsOf(es, i + 1)

\* ansible-galaxy collection install <file> -p <collections dir>, once per
\* artifact and in order; the failAt-th invocation exits non-zero, which ends the
\* loop with an error that carries the entry's name.  home.galaxy logs every
\* invocation with its outcome.
RECURSIVE GalaxyInstall(_, _, _, _, _)
GalaxyInstall(h, dir, artifacts, i, failAt) ==
    IF i > Len(artifacts) THEN Ok(h)
    ELSE IF failAt = i
    THEN [err |-> "failed to install collection from file %s",
          host |-> [h EXCEPT !.home.galaxy = Append(@, [file |-> <<dir, artifacts[i]>>, ok |-> FALSE])],
          artifact |-> artifacts[i]]
    ELSE GalaxyInstall([h EXCEPT !.home.galaxy = Append(@, [file |-> <<dir, artifacts[i]>>, ok |-> TRUE])],
                       dir, artifacts, i + 1, failAt)

OnlineArtifacts == << <<"git+https://github.com/bluebanquise/bluebanquise.git#/collections/infrastructure,master">>,
                      <<"community.general">> >>

InstallCollectionsOnline(h, failAt) ==
    GalaxyInstall([h EXCEPT !.home.collectionsDir = TRUE], "", OnlineArtifacts, 1, failAt)

\* InstallCollectionsOffline that visits the directory but stops after its first archive
InstallCollectionsOffline_FirstOnly(h, collectionsPath, failAt) ==
    LET d    == [h EXCEPT !.home.collectionsDir = TRUE]
        info == FS(collectionsPath)
    IN  IF ~info.exists THEN Fail("failed to stat collections path", d)
        ELSE IF info.isDir
        THEN GalaxyInstall(d, collectionsPath,
                           LET t == TarballsOf(info.entries, 1)
                           IN  IF t = <<>> THEN t ELSE <<t[1]>>, 1, failAt)
        ELSE IF failAt = 1
        THEN [err |-> "failed to install collection from file",
              host |-> [d EXCEPT !.home.galaxy = Append(@, [file |-> <<collectionsPath>>, ok |-> FALSE])],
              artifact |-> <<>>]
        ELSE Ok([d EXCEPT !.home.galaxy = Append(@, [file |-> <<collectionsPath>>, ok |-> TRUE])])

\* InstallCollectionsOffline that goes on with the next archive after a failure
InstallCollectionsOffline_KeepGoing(h, collectionsPath, failAt) ==
    LET d    == [h EXCEPT !.home.collectionsDir = TRUE]
        info == FS(collectionsPath)
        all  == TarballsOf(info.entries, 1)
    IN  IF ~info.exists THEN Fail("failed to stat collections path", d)
        ELSE IF info.isDir
        THEN IF failAt \in 1..Len(all)
             THEN [err |-> "failed to install collection from file %s",
                   host |-> [d EXCEPT !.home.galaxy =
                                @ \o [k \in 1..Len(all) |-> [file |-> <<collectionsPath, all[k]>>, ok |-> k # failAt]]],
                   artifact |-> all[failAt]]
             ELSE GalaxyInstall(d, collectionsPath, all, 1, failAt)
        ELSE IF failAt = 1
        THEN [err |-> "failed to install collection from file",
              host |-> [d EXCEPT !.home.galaxy = Append(@, [file |-> <<collectionsPath>>, ok |-> FALSE])],
              artifact |-> <<>>]
        ELSE Ok([d EXCEPT !.home.galaxy = Append(@, [file |-> <<collectionsPath>>, ok |-> TRUE])])

\* the collections directory is made first, whatever userHome is; a directory is
\* walked entry by entry, any other path is handed to ansible-galaxy as it is and
\* its failure is reported without a name (artifact is empty)
InstallCollectionsOffline(h, collectionsPath, failAt) ==
    LET d    == [h EXCEPT !.home.collectionsDir = TRUE]
        info == FS(collectionsPath)
    IN  IF ~info.exists THEN Fail("failed to stat collections path", d)
        ELSE IF info.isDir
        THEN GalaxyInstall(d, collectionsPath, TarballsOf(info.entries, 1), 1, failAt)
        ELSE IF failAt = 1
        THEN [err |-> "failed to install collection from file",
              host |-> [d EXCEPT !.home.galaxy = Append(@, [file |-> <<collectionsPath>>, ok |-> FALSE])],
              artifact |-> <<>>]
        ELSE Ok([d EXCEPT !.home.galaxy = Append(@, [file |-> <<collectionsPath>>, ok |-> TRUE])])

IsYamlName(n) == HasSuffix(n, <<".yml">>) \/ HasSuffix(n, <<".yaml">>)

RECURSIVE YamlsOf(_, _)
YamlsOf(es, i) ==
    IF i > Len(es) THEN <<>>
    ELSE IF ~es[i].isDir /\ IsYamlName(es[i].name) THEN <<es[i].name>> \o YamlsOf(es, i + 1)
    ELSE YamlsOf(es, i + 1)

\* the bytes of the file at a path, named after the path
ContentOf(path) == <<"bytes of">> \o path

\* copyFile(src, dst): os.Create makes or truncates dst, io.Copy fills it
copyFile(files, src, dstName) == PutSudoers(files, dstName, ContentOf(src))

\* the copy loop over the yaml entries of a directory; the failAt-th copy fails
\* at os.Open(src), before the destination is touched
RECURSIVE CopyFiles(_, _, _, _, _)
CopyFiles(h, dir, names, i, failAt) ==
    IF i > Len(names) THEN Ok(h)
    ELSE IF failAt = i THEN Fail("failed to copy core variable file %s", h)
    ELSE CopyFiles([h EXCEPT !.home.groupVars = copyFile(@, <<dir, names[i]>>, names[i])],
                   dir, names, i + 1, failAt)

\* InstallCoreVariablesOffline that keeps the source file's own name
InstallCoreVariablesOffline_OwnName(h, coreVarsPath, userHome, failAt) ==
    IF userHome = "" THEN Fail("user home directory cannot be empty", h)
    ELSE LET d    == [h EXCEPT !.home.groupVarsDir = TRUE]
             info == FS(coreVarsPath)
         IN  IF ~info.exists THEN Fail("failed to stat core variables path", d)
             ELSE IF info.isDir THEN CopyFiles(d, coreVarsPath, YamlsOf(info.entries, 1), 1, failAt)
             ELSE IF failAt = 1 THEN Fail("failed to copy core variable file", d)
             ELSE Ok([d EXCEPT !.home.groupVars = copyFile(@, <<coreVarsPath>>, info.name)])

InstallCoreVariablesOffline(h, coreVarsPath, userHome, failAt) ==
    IF userHome = "" THEN Fail("user home directory cannot be empty", h)
    ELSE LET d    == [h EXCEPT !.home.groupVarsDir = TRUE]
             info == FS(coreVarsPath)
         IN  IF ~info.exists THEN Fail("failed to stat core variables path", d)
             ELSE IF info.isDir THEN CopyFiles(d, coreVarsPath, YamlsOf(info.entries, 1), 1, failAt)
             ELSE IF failAt = 1 THEN Fail("failed to copy core variable file", d)
             ELSE Ok([d EXCEPT !.home.groupVars = copyFile(@, <<coreVarsPath>>, <<"bb_core", ".yml">>)])

\* downloads bb_core.yml from GitHub; the request fails without internet access
InstallCoreVariablesOnline(h, userHome, internet, ok) ==
    IF userHome = "" THEN Fail("user home directory cannot be empty", h)
    ELSE LET d == [h EXCEPT !.home.groupVarsDir = TRUE] IN
         IF ~internet \/ ~ok THEN Fail("failed to download bb_core.yml", d)
         ELSE Ok([d EXCEPT !.home.groupVars = copyFile(@, <<"https://raw.githubusercontent.com">>, <<"bb_core", ".yml">>)])

-----------------------------------------------------------------------------
(* Post-install hooks (internal/system/which_os.go) *)

\* BuildPython311FromSource starts with a wget from python.org; LinkPython311AsDefault
\* only runs update-alternatives.  The hook's run is recorded even when it fails.
RunPostHook(h, hook, internet, ok) ==
    LET ran == [h EXCEPT !.hookLog = Append(@, hook)] IN
    IF hook = "BuildPython311FromSource" /\ ~internet THEN Fail("failed to execute command", ran)
    ELSE IF ~ok THEN Fail("failed to execute command", ran)
    ELSE Ok(ran)

-----------------------------------------------------------------------------
(* The online and offline commands (cmd), one action per stage of Run *)

Running == -1                    \* exitCode while the process has not exited

\* the pattern `if err != nil { ...; os.Exit(1) }` that follows every stage, ignoring the error
Step_IgnoreError(stage, err, next) ==
    /\ trace' = Append(trace, [stage |-> stage, ok |-> (err = "")])
    /\ pc' = next
    /\ exitCode' = IF next = "exit" THEN 0 ELSE exitCode

\* the pattern `if err != nil { ...; os.Exit(1) }` that follows every stage;
\* returning from Run after the last stage ends the process with code 0
Step(stage, err, next) ==
    /\ trace' = Append(trace, [stage |-> stage, ok |-> (err = "")])
    /\ pc' = IF err # "" THEN "exit" ELSE next
    /\ exitCode' = IF err # "" THEN 1 ELSE IF next = "exit" THEN 0 ELSE exitCode

\* a stage whose condition is false is passed over
Skip(next) ==
    /\ pc' = next
    /\ exitCode' = IF next = "exit" THEN 0 ELSE exitCode
    /\ UNCHANGED trace

\* offlineCmd.Run accepting both path flags at once
FlagsError_NeitherOnly(f) ==
    IF f.collectionsPath = "" /\ f.tarballPath = "" THEN "either --collections-path or --tarball-path is required"
    ELSE ""

\* the two flag tests at the top of offlineCmd.Run
FlagsError(f) ==
    IF f.collectionsPath = "" /\ f.tarballPath = "" THEN "either --collections-path or --tarball-path is required"
    ELSE IF f.collectionsPath # "" /\ f.tarballPath # "" THEN "cannot use both --collections-path and --tarball-path"
    ELSE ""

locals == <<osID, version, packages, postHook>>
otherVars == <<file, file0, line, fcalls, ferr, acct, ucall, ucalls, input, calls>>
fixedVars == <<mode, flags, env, host0>>

OfflineCheckFlags ==
    /\ mode = "offline" /\ pc = "start"
    /\ IF FlagsError(flags) # ""
       THEN Step("CheckFlags", FlagsError(flags), "SystemCheck")
       ELSE Skip("SystemCheck")
    /\ UNCHANGED <<fixedVars, host, locals, checks, otherVars>>

RunSystemCheck ==
    /\ \/ mode = "online" /\ pc = "start"
       \/ mode = "offline" /\ pc = "SystemCheck"
    /\ LET r == SystemCheck(env, host) IN
       /\ checks' = r.performed
       /\ Step("SystemCheck", r.err, IF mode = "online" THEN "DetectOS" ELSE "ValidatePath")
    /\ UNCHANGED <<fixedVars, host, locals, otherVars>>

\* the validator offlineCmd.Run applies to the path flag that is set
ValidatePathError(f) ==
    IF f.tarballPath # "" THEN CheckTarballPrerequisites(f.tarballPath)
    ELSE CheckOfflinePrerequisites(f.collectionsPath)

OfflineValidatePath ==
    /\ mode = "offline" /\ pc = "ValidatePath"
    /\ Step("ValidatePath", ValidatePathError(flags), "ValidateRequirements")
    /\ UNCHANGED <<fixedVars, host, locals, checks, otherVars>>

OfflineValidateRequirements ==
    /\ mode = "offline" /\ pc = "ValidateRequirements"
    /\ IF flags.requirementsPath # ""
       THEN Step("ValidateRequirements", CheckRequirementsPrerequisites(flags.requirementsPath), "ValidateCoreVars")
       ELSE Skip("ValidateCoreVars")
    /\ UNCHANGED <<fixedVars, host, locals, checks, otherVars>>

OfflineValidateCoreVars ==
    /\ mode = "offline" /\ pc = "ValidateCoreVars"
    /\ IF flags.coreVarsPath # ""
       THEN Step("ValidateCoreVars", StatCoreVars(flags.coreVarsPath), "DetectOS")
       ELSE Skip("DetectOS")
    /\ UNCHANGED <<fixedVars, host, locals, checks, otherVars>>

RunDetectOS ==
    /\ pc = "DetectOS"
    /\ LET r == DetectOS(env.osRelease) IN
       /\ osID' = r.name
       /\ version' = r.version
       /\ Step("DetectOS", r.err, "FindPackages")
    /\ UNCHANGED <<fixedVars, host, packages, postHook, checks, otherVars>>

\* the lookup without the test for an empty result
NoPackagesError_Unchecked(pkgs) == ""

\* the test `len(packages) == 0` after the lookup loop
NoPackagesError(pkgs) == IF Len(pkgs) = 0 THEN "no package definition found" ELSE ""

\* onlineCmd.Run forgetting the hook of the entry
OnlinePostHook_Dropped(def) == ""

\* onlineCmd.Run keeps the entry's packages and its hook
OnlinePostHook(def) == def.PostHook

\* offlineCmd.Run keeps the entry's packages only
OfflinePostHook(def) == ""

OnlineFindPackages ==
    /\ mode = "online" /\ pc = "FindPackages"
    /\ LET def == FindDefinition(osID, version, 1) IN
       /\ packages' = def.Packages
       /\ postHook' = OnlinePostHook(def)
       /\ Step("FindPackages", NoPackagesError(def.Packages), "InstallPackages")
    /\ UNCHANGED <<fixedVars, host, osID, version, checks, otherVars>>

OfflineFindPackages ==
    /\ mode = "offline" /\ pc = "FindPackages"
    /\ LET def == FindDefinition(osID, version, 1) IN
       /\ packages' = def.Packages
       /\ postHook' = OfflinePostHook(def)
       /\ Step("FindPackages", NoPackagesError(def.Packages), "InstallPackages")
    /\ UNCHANGED <<fixedVars, host, osID, version, checks, otherVars>>

\* what a package installation may add to the search path: nothing, or dnf
\* coming in with the packages' dependencies
ShippedTools == { {}, {"dnf"} }

RunInstallPackages ==
    /\ pc = "InstallPackages"
    /\ \E ok \in BOOLEAN, shipped \in ShippedTools :
         LET r == InstallPackages(host, packages, ok, shipped) IN
         /\ host' = r.host
         /\ Step("InstallPackages", r.err, IF postHook # "" THEN "PostHook" ELSE "CreateUser")
    /\ UNCHANGED <<fixedVars, locals, checks, otherVars>>

RunPostHookStage ==
    /\ pc = "PostHook"
    /\ \E ok \in BOOLEAN :
         LET r == RunPostHook(host, postHook, env.internet, ok) IN
         /\ host' = r.host
         /\ Step("PostHook", r.err, "CreateUser")
    /\ UNCHANGED <<fixedVars, locals, checks, otherVars>>

RunCreateUser ==
    /\ pc = "CreateUser"
    /\ \E t \in ToolOutcomes :
         LET r == CreateBluebanquiseUser(host.db, flags.userName, flags.userHome, t) IN
         /\ host' = [host EXCEPT !.db = r.db,
                                 !.home.exists = @ \/ (Len(r.db.users) > Len(host.db.users))]
         /\ Step("CreateUser", r.err,
                 IF flags.skipEnvironment THEN "InstallCollections" ELSE "ConfigureEnvironment")
    /\ UNCHANGED <<fixedVars, locals, checks, otherVars>>

EnvContext == [osRelease |-> env.osRelease, userName |-> flags.userName, userHome |-> flags.userHome,
               requirementsPath |-> flags.requirementsPath]

MaxEnvSteps == 9                 \* the longest list EnvironmentSteps yields

OnlineConfigureEnvironment ==
    /\ mode = "online" /\ pc = "ConfigureEnvironment"
    /\ \E failAt \in 0..MaxEnvSteps :
         LET r == ConfigureEnvironment(host, EnvContext, failAt) IN
         /\ host' = r.host
         /\ Step("ConfigureEnvironment", r.err, "InstallCollections")
    /\ UNCHANGED <<fixedVars, locals, checks, otherVars>>

OfflineConfigureEnvironment ==
    /\ mode = "offline" /\ pc = "ConfigureEnvironment"
    /\ \E failAt \in 0..MaxEnvSteps :
         LET r == ConfigureEnvironmentOffline(host, EnvContext, failAt) IN
         /\ host' = r.host
         /\ Step("ConfigureEnvironment", r.err, "InstallCollections")
    /\ UNCHANGED <<fixedVars, locals, checks, otherVars>>

MaxArtifacts == 2                \* the most artifacts one path of FS holds

OnlineInstallCollections ==
    /\ mode = "online" /\ pc = "InstallCollections"
    /\ \E failAt \in 0..MaxArtifacts :
         LET r == InstallCollectionsOnline(host, failAt) IN
         /\ host' = r.host
         /\ Step("InstallCollections", r.err, "InstallCoreVariables")
    /\ UNCHANGED <<fixedVars, locals, checks, otherVars>>

\* offlineCmd.Run hands whichever path flag is set to the same installer
OfflineInstallCollections ==
    /\ mode = "offline" /\ pc = "InstallCollections"
    /\ \E failAt \in 0..MaxArtifacts :
         LET path == IF flags.tarballPath # "" THEN flags.tarballPath ELSE flags.collectionsPath
             r    == InstallCollectionsOffline(host, path, failAt)
         IN  /\ host' = r.host
             /\ Step("InstallCollections", r.err, "InstallCoreVariables")
    /\ UNCHANGED <<fixedVars, locals, checks, otherVars>>

OnlineInstallCoreVariables ==
    /\ mode = "online" /\ pc = "InstallCoreVariables"
    /\ \E ok \in BOOLEAN :
         LET r == InstallCoreVariablesOnline(host, flags.userHome, env.internet, ok) IN
         /\ host' = r.host
         /\ Step("InstallCoreVariables", r.err, "exit")
    /\ UNCHANGED <<fixedVars, locals, checks, otherVars>>

OfflineInstallCoreVariables ==
    /\ mode = "offline" /\ pc = "InstallCoreVariables"
    /\ IF flags.coreVarsPath # ""
       THEN \E failAt \in 0..1 :
              LET r == InstallCoreVariablesOffline(host, flags.coreVarsPath, flags.userHome, failAt) IN
              /\ host' = r.host
              /\ Step("InstallCoreVariables", r.err, "exit")
       ELSE Skip("exit") /\ UNCHANGED host
    /\ UNCHANGED <<fixedVars, locals, checks, otherVars>>

-----------------------------------------------------------------------------
(* Inputs of a run *)

UbuntuJammy == [readable |-> TRUE,
                lines |-> << <<"NAME=", Quote, "Ubuntu", Quote>>, <<"ID=", "ubuntu">>,
                             <<"VERSION_ID=", Quote, "2","2",".","0","4", Quote>> >>]
UbuntuFocal == [readable |-> TRUE,
                lines |-> << <<"ID=", "ubuntu">>, <<"ID_LIKE=", "debian">>,
                             <<"VERSION_ID=", Quote, "2","0",".","0","4", Quote>> >>]
Rocky93     == [readable |-> TRUE,
                lines |-> << <<"ID=", Quote, "rocky", Quote>>,
                             <<"VERSION_ID=", Quote, "9",".","3", Quote>> >>]
Leap155     == [readable |-> TRUE,
                lines |-> << <<"ID=", Quote, "opensuse-leap", Quote>>,
                             <<"VERSION_ID=", Quote, "1","5",".","5", Quote>> >>]
ArchLinux   == [readable |-> TRUE, lines |-> << <<"NAME=", Quote, "Arch Linux", Quote>>, <<"ID=", "arch">> >>]
Unreadable  == [readable |-> FALSE, lines |-> <<>>]

OSReleases == {UbuntuJammy, UbuntuFocal, Rocky93, Leap155, ArchLinux, Unreadable}

ToolSets == { {}, {"apt-get"}, {"yum", "zypper"} }

Envs == [euidRoot : BOOLEAN, python3 : BOOLEAN, internet : BOOLEAN, osRelease : OSReleases]

RunUserNames == {"bluebanquise", "svc"}
RunUserHomes == {"/var/lib/bluebanquise"}

OnlineFlags ==
    [collectionsPath : {""}, tarballPath : {""}, requirementsPath : {""}, coreVarsPath : {""},
     userName : RunUserNames, userHome : RunUserHomes, skipEnvironment : BOOLEAN]

OfflineFlags ==
    [collectionsPath : {"", "/srv/empty", "/srv/unpacked", "/srv/collections"},
     tarballPath : {"", "/srv/bb.tgz"},
     requirementsPath : {"", "/srv/noreq", "/srv/requirements"},
     coreVarsPath : {"", "/srv/missing", "/srv/core.yml"},
     userName : RunUserNames, userHome : RunUserHomes, skipEnvironment : BOOLEAN]

IdleFile == /\ file = Absent /\ file0 = Absent /\ line = <<>> /\ fcalls = 0 /\ ferr = <<>>
IdleUser == /\ acct = EmptyDB /\ ucall = <<>> /\ ucalls = 0
IdleLib  == /\ input = <<>> /\ calls = <<>>

Init ==
    /\ mode \in {"online", "offline"}
    /\ flags \in (IF mode = "online" THEN OnlineFlags ELSE OfflineFlags)
    /\ env \in Envs
    /\ \E tools \in ToolSets : host = FreshHost(tools)
    /\ host0 = host
    /\ pc = "start" /\ exitCode = Running
    /\ osID = <<>> /\ version = <<>> /\ packages = <<>> /\ postHook = ""
    /\ trace = <<>> /\ checks = <<>>
    /\ IdleFile /\ IdleUser /\ IdleLib

Next ==
    \/ OfflineCheckFlags
    \/ RunSystemCheck
    \/ OfflineValidatePath
    \/ OfflineValidateRequirements
    \/ OfflineValidateCoreVars
    \/ RunDetectOS
    \/ OnlineFindPackages
    \/ OfflineFindPackages
    \/ RunInstallPackages
    \/ RunPostHookStage
    \/ RunCreateUser
    \/ OnlineConfigureEnvironment
    \/ OfflineConfigureEnvironment
    \/ OnlineInstallCollections
    \/ OfflineInstallCollections
    \/ OnlineInstallCoreVariables
    \/ OfflineInstallCoreVariables

Spec == Init /\ [][Next]_vars

-----------------------------------------------------------------------------
(* Properties of a run *)

StageOrder ==
    <<"CheckFlags", "SystemCheck", "ValidatePath", "ValidateRequirements", "ValidateCoreVars",
      "DetectOS", "FindPackages", "InstallPackages", "PostHook", "CreateUser",
      "ConfigureEnvironment", "InstallCollections", "InstallCoreVariables">>

Rank(stage) == CHOOSE i \in 1..Len(StageOrder) : StageOrder[i] = stage

\* position of a stage in the run so far, 0 when it has not run
Pos(stage) ==
    IF \E i \in 1..Len(trace) : trace[i].stage = stage
    THEN CHOOSE i \in 1..Len(trace) : trace[i].stage = stage
    ELSE 0

Ran(stage) == Pos(stage) > 0
Succeeded(stage) == Ran(stage) /\ trace[Pos(stage)].ok
Failed(stage) == Ran(stage) /\ ~trace[Pos(stage)].ok

LastStage == IF trace = <<>> THEN "" ELSE trace[Len(trace)].stage

\* the hook of the table entry that matches the host's fingerprint
ExpectedHook ==
    LET d == DetectOS(env.osRelease) IN
    IF d.err # "" THEN "" ELSE FindDefinition(d.name, d.version, 1).PostHook

\* C1: the stages of a run execute one after another in the fixed order; a stage
\* that fails is the last stage of the run and the process has exited with code 1;
\* the process exits with code 0 only when every stage it executed succeeded.
C1_FailureAbortsRun ==
    /\ \A i, j \in 1..Len(trace) : i < j => Rank(trace[i].stage) < Rank(trace[j].stage)
    /\ \A i \in 1..Len(trace) : ~trace[i].ok => i = Len(trace) /\ exitCode = 1 /\ pc = "exit"
    /\ exitCode = 0 => \A i \in 1..Len(trace) : trace[i].ok
    /\ exitCode = 1 => trace # <<>> /\ ~trace[Len(trace)].ok
    /\ exitCode \in {Running, 0, 1}

\* a run that fails at account provisioning, after packages were installed
C1_Witness ==
    /\ exitCode = 1 /\ LastStage = "CreateUser" /\ Succeeded("InstallPackages")
    /\ host.installed # {}

\* C2: in the online run the hook of the matched entry runs at most once, only
\* after the package installation succeeded, and has run exactly once by the time
\* account provisioning starts; with no hook in the entry no hook runs.
C2_OnlineHookOnce ==
    mode = "online" =>
        /\ Len(host.hookLog) <= 1
        /\ host.hookLog # <<>> =>
              /\ ExpectedHook # "" /\ host.hookLog = <<ExpectedHook>>
              /\ Succeeded("InstallPackages")
              /\ Pos("PostHook") = Pos("InstallPackages") + 1
        /\ host.hookLog # <<>> /\ ~Ran("CreateUser") => host.db = host0.db
        /\ Ran("CreateUser") /\ ExpectedHook # "" =>
              /\ Len(host.hookLog) = 1
              /\ Succeeded("PostHook") /\ Pos("PostHook") < Pos("CreateUser")
        /\ ExpectedHook = "" => host.hookLog = <<>> /\ ~Ran("PostHook")

\* an online run on Ubuntu 20.04 that built the interpreter and went on to the account
C2_Witness ==
    /\ mode = "online" /\ host.hookLog = <<"BuildPython311FromSource">>
    /\ Ran("CreateUser")

\* the stages of the online run from OS detection on, for a given hook and --skip-environment
OnlineSequence(hook, skipEnvironment) ==
    <<"DetectOS", "FindPackages", "InstallPackages">>
    \o (IF hook # "" THEN <<"PostHook">> ELSE <<>>)
    \o <<"CreateUser">>
    \o (IF skipEnvironment THEN <<>> ELSE <<"ConfigureEnvironment">>)
    \o <<"InstallCollections", "InstallCoreVariables">>

\* the stages executed so far from OS detection on
RECURSIVE StagesFrom(_)
StagesFrom(i) ==
    IF i > Len(trace) THEN <<>> ELSE <<trace[i].stage>> \o StagesFrom(i + 1)

\* C3: a completed offline run has executed, from OS detection on, the stages of
\* the online run in the same order, the post-install hook included when the
\* matched entry has one.
C3_OfflineSameSequence ==
    mode = "offline" /\ exitCode = 0 =>
        StagesFrom(Pos("DetectOS")) = OnlineSequence(ExpectedHook, flags.skipEnvironment)

\* C4: an offline run performs no internet-connectivity check, so no offline run
\* fails for want of a route to the internet.
C4_OfflineNoInternetCheck ==
    mode = "offline" =>
        /\ "internet connectivity" \notin Range(checks)
        /\ ~env.internet => ~(Failed("SystemCheck") /\ env.euidRoot /\ env.python3
                              /\ detectPackageManager(host0.pathTools) # "")

\* C5: an offline invocation with both path flags or with neither has exited with
\* failure at the flag test: no system check ran, no OS was detected, the host is
\* untouched.
C5_FlagsRejectedFirst ==
    mode = "offline" /\ pc # "start"
    /\ ((flags.collectionsPath = "") <=> (flags.tarballPath = "")) =>
        /\ exitCode = 1 /\ pc = "exit"
        /\ trace = <<[stage |-> "CheckFlags", ok |-> FALSE]>>
        /\ checks = <<>>
        /\ osID = <<>> /\ version = <<>>
        /\ host = host0

\* both flags given, run refused
C5_Witness ==
    /\ mode = "offline" /\ flags.collectionsPath # "" /\ flags.tarballPath # ""
    /\ exitCode = 1 /\ LastStage = "CheckFlags"

\* the stages that validate the paths given on the command line
Validations(f) ==
    {"ValidatePath"}
    \cup (IF f.requirementsPath # "" THEN {"ValidateRequirements"} ELSE {})
    \cup (IF f.coreVarsPath # "" THEN {"ValidateCoreVars"} ELSE {})

\* C6: in the offline run OS detection, package installation and every host
\* mutation come after the successful validation of every supplied path; a failed
\* validation ends the run; an empty collections directory is refused with no
\* package installed.
C6_ValidationFirst ==
    mode = "offline" =>
        /\ Ran("DetectOS") \/ host # host0 \/ osID # <<>> =>
              \A v \in Validations(flags) : Succeeded(v) /\ Pos(v) < Pos("DetectOS")
        /\ \A v \in Validations(flags) : Failed(v) => exitCode = 1 /\ pc = "exit" /\ host = host0
        /\ flags.collectionsPath = "/srv/empty" =>
              /\ host.pkgLog = <<>> /\ host.installed = {}
              /\ ~Ran("DetectOS") /\ exitCode # 0

\* the empty directory is what stopped the run
C6_Witness ==
    /\ mode = "offline" /\ flags.collectionsPath = "/srv/empty" /\ flags.tarballPath = ""
    /\ Failed("ValidatePath") /\ Succeeded("SystemCheck")

\* C7: once OS detection has failed, or the lookup for the detected OS has come back
\* empty, or the system check has found no supported package manager, the run has
\* exited with code 1 and the host is as the run found it.
C7_NoChangeOnEarlyFailure ==
    /\ Ran("DetectOS") /\ DetectOS(env.osRelease).err # "" =>
          exitCode = 1 /\ LastStage = "DetectOS" /\ host = host0
    /\ Ran("FindPackages") /\ FindDefinition(osID, version, 1).Packages = <<>> =>
          exitCode = 1 /\ LastStage = "FindPackages" /\ host = host0
    /\ Ran("SystemCheck") /\ (\A i \in 1..Len(Candidates) : Candidates[i] \notin host0.pathTools) =>
          exitCode = 1 /\ LastStage = "SystemCheck" /\ host = host0

\* an OS that is detected but has no entry in the table
C7_Witness ==
    /\ Succeeded("DetectOS") /\ osID = <<"arch">>
    /\ Failed("FindPackages") /\ exitCode = 1

-----------------------------------------------------------------------------
(* Repeated calls of AppendLineIfMissing on one file *)

MaxFileLen == 3                  \* atoms in the file at the start
MaxLineLen == 2                  \* atoms in the line
MaxFileCalls == 3                \* calls in one behaviour

RECURSIVE SeqsUpTo(_, _)
SeqsUpTo(S, n) ==
    IF n = 0 THEN {<<>>}
    ELSE SeqsUpTo(S, n - 1) \cup {Append(q, a) : q \in SeqsUpTo(S, n - 1), a \in S}

FileAtoms == {"a", " ", NL, Big}
LineAtoms == {"a", "b", " ", Big}

IdleRun ==
    /\ mode = "none" /\ pc = "idle" /\ exitCode = Running
    /\ flags = [collectionsPath |-> "", tarballPath |-> "", requirementsPath |-> "", coreVarsPath |-> "",
                userName |-> "", userHome |-> "", skipEnvironment |-> FALSE]
    /\ env = [euidRoot |-> TRUE, python3 |-> TRUE, internet |-> TRUE, osRelease |-> Unreadable]
    /\ host = FreshHost({}) /\ host0 = FreshHost({})
    /\ osID = <<>> /\ version = <<>> /\ packages = <<>> /\ postHook = ""
    /\ trace = <<>> /\ checks = <<>>

InitFile ==
    /\ IdleRun /\ IdleUser /\ IdleLib
    /\ file \in {Absent} \cup {FileOf(d) : d \in SeqsUpTo(FileAtoms, MaxFileLen)}
    /\ file0 = file
    /\ line \in SeqsUpTo(LineAtoms, MaxLineLen)
    /\ fcalls = 0 /\ ferr = <<>>

CallAppend ==
    /\ mode = "none" /\ fcalls < MaxFileCalls
    /\ \E io \in {"ok", "fail"} :
         LET r == AppendLineIfMissing(file, line, io) IN
         /\ file' = r.file
         /\ ferr' = Append(ferr, r.err)
    /\ fcalls' = fcalls + 1
    /\ UNCHANGED <<runVars, file0, line, userVars, libVars>>

NextFile == CallAppend

SpecFile == InitFile /\ [][NextFile]_vars

\* the number of lines of the file that are the line, leading and trailing blanks aside
RECURSIVE CountLines(_, _)
CountLines(ls, ln) ==
    IF Len(ls) = 0 THEN 0
    ELSE (IF TrimSpace(Head(ls)) = TrimSpace(ln) THEN 1 ELSE 0) + CountLines(Tail(ls), ln)

Occurrences(f, ln) == IF f.exists THEN CountLines(SplitLines(f.data, <<>>), ln) ELSE 0

\* C8: after two calls that both returned nil, on a file that did not hold the
\* line at the start (or did not exist), the file holds the line exactly once.
C8_TwiceOneOccurrence ==
    (fcalls = 2 /\ ferr = <<"", "">> /\ Occurrences(file0, line) = 0) =>
        Occurrences(file, line) = 1

-----------------------------------------------------------------------------
(* Repeated calls of CreateBluebanquiseUser on one account database *)

MaxUserCalls == 2                \* calls in one behaviour
OtherId == 1000                  \* an id that is not the fixed one

GroupRec(n, gid) == [name |-> n, gid |-> gid]
UserRec(n, uid, gid, home) ==
    [name |-> n, uid |-> uid, gid |-> gid, home |-> home, shell |-> "/bin/bash", system |-> TRUE]

\* account databases a host can have before the installer is run
InitialDBs ==
    { EmptyDB,
      [EmptyDB EXCEPT !.groups = <<GroupRec("svc", FixedId)>>],
      [EmptyDB EXCEPT !.groups = <<GroupRec("svc", OtherId)>>],
      [EmptyDB EXCEPT !.groups = <<GroupRec("ceph", FixedId)>>,
                      !.users = <<UserRec("ceph", FixedId, FixedId, "/var/lib/ceph")>>],
      [EmptyDB EXCEPT !.groups = <<GroupRec("svc", OtherId)>>,
                      !.users = <<UserRec("svc", OtherId, OtherId, "/home/svc")>>],
      [EmptyDB EXCEPT !.groups = <<GroupRec("svc", FixedId)>>,
                      !.users = <<UserRec("svc", FixedId, FixedId, "/var/lib/bluebanquise")>>,
                      !.sudoers = <<[name |-> "svc", data |-> <<"svc", " ALL=(ALL) ALL", NL>>]>>] }

UserNames == {"", "svc", "bluebanquise"}
UserHomes == {"", "/var/lib/bluebanquise"}

InitUser ==
    /\ IdleRun /\ IdleFile /\ IdleLib
    /\ acct \in InitialDBs
    /\ ucall = <<>> /\ ucalls = 0

\* ucall is the history of the calls: arguments, tool outcomes, result, state before and after
CallCreateUser ==
    /\ mode = "none" /\ ucalls < MaxUserCalls
    /\ \E n \in UserNames, h \in UserHomes, t \in ToolOutcomes :
         LET r == CreateBluebanquiseUser(acct, n, h, t) IN
         /\ acct' = r.db
         /\ ucall' = Append(ucall, [name |-> n, home |-> h, t |-> t, err |-> r.err,
                                    before |-> acct, after |-> r.db])
    /\ ucalls' = ucalls + 1
    /\ UNCHANGED <<runVars, fileVars, libVars>>

NextUser == CallCreateUser

SpecUser == InitUser /\ [][NextUser]_vars

\* C9: a call with an empty account name or an empty home directory returns an
\* error and leaves groups, users and privilege files as they were.
C9_EmptyArgumentsRejected ==
    \A i \in 1..Len(ucall) :
        (ucall[i].name = "" \/ ucall[i].home = "") =>
            /\ ucall[i].err # ""
            /\ ucall[i].after.groups = ucall[i].before.groups
            /\ ucall[i].after.users = ucall[i].before.users
            /\ ucall[i].after.sudoers = ucall[i].before.sudoers

\* C10: a call adds a group only when no group of the name existed, and then the
\* group of that name with gid 377; it adds a user only when no user of the name
\* existed, and then the user with uid and gid 377, the given home, /bin/bash, as
\* a system account; after a successful call the privilege file of the name is the
\* one rule line; a call that repeats a successful call creates nothing, leaves
\* the database as it was and succeeds when the file write does.
C10_CreateOnlyWhenAbsent ==
    \A i \in 1..Len(ucall) :
        LET c == ucall[i] IN
        /\ IF \E k \in 1..Len(c.before.groups) : c.before.groups[k].name = c.name
           THEN c.after.groups = c.before.groups
           ELSE c.after.groups \in {c.before.groups,
                                    Append(c.before.groups, [name |-> c.name, gid |-> 377])}
        /\ IF \E k \in 1..Len(c.before.users) : c.before.users[k].name = c.name
           THEN c.after.users = c.before.users
           ELSE c.after.users \in {c.before.users,
                                   Append(c.before.users,
                                          [name |-> c.name, uid |-> 377, gid |-> 377, home |-> c.home,
                                           shell |-> "/bin/bash", system |-> TRUE])}
        /\ c.err = "" =>
              /\ SudoersFile(c.after, c.name) = FileOf(<<c.name, " ALL=(ALL:ALL) NOPASSWD:ALL", NL>>)
              /\ \E k \in 1..Len(c.after.groups) : c.after.groups[k].name = c.name
              /\ \E k \in 1..Len(c.after.users) : c.after.users[k].name = c.name
        /\ (i > 1 /\ ucall[i-1].err = "" /\ ucall[i-1].name = c.name /\ ucall[i-1].home = c.home) =>
              /\ c.after = c.before
              /\ c.t.write => c.err = ""

\* both created from nothing by the first call, the second call repeats it
C10_Witness ==
    /\ Len(ucall) = 2
    /\ ucall[1].before = EmptyDB /\ ucall[1].err = "" /\ ucall[1].name = "svc"
    /\ ucall[1].after.created = << <<"group", "svc">>, <<"user", "svc">> >>
    /\ ucall[2].name = "svc" /\ ucall[2].home = ucall[1].home /\ ucall[2].err = ""

-----------------------------------------------------------------------------
(* The download command (cmd/download.go) *)

\* the flags init() registers on downloadCmd
RegisteredFlags == {"--path", "--tarball", "--requirements", "--core-vars"}

\* cobra refuses a flag that is not registered and a command line without the
\* flag marked required; Run itself refuses an empty --path
ParseError(given, path) ==
    IF ~(given \subseteq RegisteredFlags) THEN "unknown flag"
    ELSE IF "--path" \notin given THEN "required flag(s) \"path\" not set"
    ELSE IF path = "" THEN "--path is required"
    ELSE ""

\* the if / else-if chain of Run: the download functions it calls, in order
DownloadBranches(given) ==
    IF "--requirements" \in given THEN <<"requirements">>
    ELSE IF "--tarball" \in given THEN <<"tarballs">>
    ELSE IF "--core-vars" \in given THEN <<"core-vars">>
    ELSE <<"collections">>

\* the external steps of a download function: what each leaves in the staging
\* tree and whether it needs the network
DownloadSteps(branch) ==
    CASE branch = "requirements" ->
           << [item |-> "requirements.txt", net |-> FALSE],
              [item |-> "requirements/packages", net |-> TRUE] >>
      [] branch = "tarballs" ->
           << [item |-> "temp_venv", net |-> FALSE],
              [item |-> "temp_venv/ansible-core", net |-> TRUE],
              [item |-> "tarballs/infrastructure", net |-> TRUE],
              [item |-> "tarballs/community.general", net |-> TRUE] >>
      [] branch = "core-vars" ->
           << [item |-> "core-vars/bb_core.yml", net |-> TRUE] >>
      [] branch = "collections" ->
           << [item |-> "temp_venv", net |-> FALSE],
              [item |-> "temp_venv/ansible-core", net |-> TRUE],
              [item |-> "collections/infrastructure", net |-> TRUE],
              [item |-> "collections/community.general", net |-> TRUE] >>

\* os.RemoveAll(tempVenv) at the end of downloadCollections and downloadTarballs
RECURSIVE RemoveTempVenv(_)
RemoveTempVenv(items) ==
    IF Len(items) = 0 THEN <<>>
    ELSE IF Head(items) \in {"temp_venv", "temp_venv/ansible-core"} THEN RemoveTempVenv(Tail(items))
    ELSE <<Head(items)>> \o RemoveTempVenv(Tail(items))

\* the steps in order: a step fails without the network it needs, or when it is
\* the failAt-th external step of the invocation (k counts the steps before)
RECURSIVE RunDownloadSteps(_, _, _, _, _, _)
RunDownloadSteps(steps, i, k, items, internet, failAt) ==
    IF i > Len(steps) THEN [err |-> "", items |-> RemoveTempVenv(items)]
    ELSE IF (steps[i].net /\ ~internet) \/ failAt = k + i THEN [err |-> "download failed", items |-> items]
    ELSE RunDownloadSteps(steps, i + 1, k, Append(items, steps[i].item), internet, failAt)

\* downloadPythonRequirements exits before downloading anything when the OS is
\* not detected or has no entry in the table
BranchPrecondition(branch, osRelease) ==
    IF branch # "requirements" THEN ""
    ELSE LET d == DetectOS(osRelease) IN
         IF d.err # "" THEN "error detecting OS"
         ELSE IF FindDefinition(d.name, d.version, 1) = NoDefinition THEN "no requirements found for OS"
         ELSE ""

RECURSIVE RunBranches(_, _, _, _, _, _, _)
RunBranches(branches, j, k, items, osRelease, internet, failAt) ==
    IF j > Len(branches) THEN [err |-> "", items |-> items]
    ELSE IF BranchPrecondition(branches[j], osRelease) # ""
    THEN [err |-> BranchPrecondition(branches[j], osRelease), items |-> items]
    ELSE LET r == RunDownloadSteps(DownloadSteps(branches[j]), 1, k, items, internet, failAt) IN
         IF r.err # "" THEN r
         ELSE RunBranches(branches, j + 1, k + Len(DownloadSteps(branches[j])), r.items,
                          osRelease, internet, failAt)

\* one invocation of `download`: the exit code and the staging tree it leaves.
\* External step 1 is os.MkdirAll(downloadPath).
DownloadCommand(given, path, osRelease, internet, failAt) ==
    IF ParseError(given, path) # "" THEN [exitCode |-> 1, dir |-> FALSE, items |-> <<>>]
    ELSE IF failAt = 1 THEN [exitCode |-> 1, dir |-> FALSE, items |-> <<>>]
    ELSE LET r == RunBranches(DownloadBranches(given), 1, 1, <<>>, osRelease, internet, failAt) IN
         [exitCode |-> IF r.err # "" THEN 1 ELSE 0, dir |-> TRUE, items |-> r.items]

MaxDownloadSteps == 5            \* external steps of the longest download function, MkdirAll included

CommandLineFlags == RegisteredFlags \cup {"--collections"}
DownloadPaths == {"", "/tmp/offline-packages"}

InitDownload == IdleRun /\ IdleFile /\ IdleUser /\ IdleLib

RunDownload ==
    /\ mode = "none" /\ calls = <<>>
    /\ \E given \in SUBSET CommandLineFlags, path \in DownloadPaths, osRelease \in OSReleases,
          internet \in BOOLEAN, failAt \in 0..MaxDownloadSteps :
         LET r == DownloadCommand(given, IF "--path" \in given THEN path ELSE "", osRelease, internet, failAt)
         IN  calls' = <<[op |-> "download", given |-> given,
                         path |-> IF "--path" \in given THEN path ELSE "",
                         osRelease |-> osRelease, internet |-> internet, failAt |-> failAt,
                         exitCode |-> r.exitCode, dir |-> r.dir, items |-> r.items]>>
    /\ UNCHANGED <<runVars, fileVars, userVars, input>>

NextDownload == RunDownload

SpecDownload == InitDownload /\ [][NextDownload]_vars

\* the artifact types the staging tree holds
Downloaded(c, type) == \E i \in 1..Len(c.items) : c.items[i] \in
    (CASE type = "collections" -> {"collections/infrastructure", "collections/community.general"}
       [] type = "requirements" -> {"requirements.txt", "requirements/packages"}
       [] type = "core-vars" -> {"core-vars/bb_core.yml"}
       [] type = "tarballs" -> {"tarballs/infrastructure", "tarballs/community.general"})

\* C11: an invocation with a --path and none of --collections, --requirements,
\* --core-vars exits with failure and has downloaded nothing.
C11_NoTypeRejected ==
    \A i \in 1..Len(calls) :
        (calls[i].op = "download" /\ calls[i].path # ""
         /\ calls[i].given \cap {"--collections", "--requirements", "--core-vars"} = {}) =>
            calls[i].exitCode = 1 /\ calls[i].items = <<>>

\* C12: an invocation in which every step succeeds has downloaded every
\* artifact type whose flag it was given.
C12_EverySelectedType ==
    \A i \in 1..Len(calls) :
        (calls[i].op = "download" /\ calls[i].path # "" /\ calls[i].failAt = 0 /\ calls[i].internet
         /\ calls[i].osRelease = Rocky93) =>
            /\ "--collections" \in calls[i].given => Downloaded(calls[i], "collections")
            /\ "--requirements" \in calls[i].given => Downloaded(calls[i], "requirements")
            /\ "--core-vars" \in calls[i].given => Downloaded(calls[i], "core-vars")

-----------------------------------------------------------------------------
(* Calls of the artifact installers on one account home *)

MaxInstallCalls == 2             \* calls in one behaviour

InstallPaths == {"/srv/missing", "/srv/empty", "/srv/collections", "/srv/unpacked", "/srv/bb.tgz",
                 "/srv/notes.txt", "/srv/core.yml", "/srv/corevars"}

OldCoreVars == [name |-> <<"bb_core", ".yml">>, data |-> <<"bytes of an earlier installation">>]

\* the account home before the call: untouched, or left by an earlier installation
InstallHomes ==
    { FreshHome,
      [FreshHome EXCEPT !.exists = TRUE, !.collectionsDir = TRUE, !.groupVarsDir = TRUE,
                        !.groupVars = <<OldCoreVars>>] }

InitInstall ==
    /\ mode = "none" /\ pc = "idle" /\ exitCode = Running
    /\ flags = [collectionsPath |-> "", tarballPath |-> "", requirementsPath |-> "", coreVarsPath |-> "",
                userName |-> "", userHome |-> "", skipEnvironment |-> FALSE]
    /\ env = [euidRoot |-> TRUE, python3 |-> TRUE, internet |-> TRUE, osRelease |-> Unreadable]
    /\ host \in {[FreshHost({}) EXCEPT !.home = hm] : hm \in InstallHomes}
    /\ host0 = host
    /\ osID = <<>> /\ version = <<>> /\ packages = <<>> /\ postHook = ""
    /\ trace = <<>> /\ checks = <<>>
    /\ IdleFile /\ IdleUser /\ IdleLib

\* the artifact an error names, empty when it names none
NamedIn(r) == IF "artifact" \in DOMAIN r THEN r.artifact ELSE <<>>

CallCount == IF calls = <<>> THEN 0 ELSE calls[1].n

\* calls holds the latest call: arguments, result, the home before and after
CallInstallCollections ==
    /\ mode = "none" /\ CallCount < MaxInstallCalls
    /\ \E path \in InstallPaths, userHome \in UserHomes, failAt \in 0..MaxArtifacts :
         LET h0 == host
             r  == InstallCollectionsOffline(h0, path, failAt)
         IN  /\ host' = r.host
             /\ calls' = <<[op |-> "InstallCollectionsOffline", n |-> CallCount + 1,
                            path |-> path, home |-> userHome, failAt |-> failAt,
                            err |-> r.err, artifact |-> NamedIn(r),
                            before |-> h0.home, after |-> r.host.home]>>
    /\ UNCHANGED <<fixedVars, pc, exitCode, locals, trace, checks, fileVars, userVars, input>>

CallInstallCoreVariables ==
    /\ mode = "none" /\ CallCount < MaxInstallCalls
    /\ \E path \in InstallPaths, userHome \in UserHomes, failAt \in 0..MaxArtifacts :
         LET h0 == host
             r  == InstallCoreVariablesOffline(h0, path, userHome, failAt)
         IN  /\ host' = r.host
             /\ calls' = <<[op |-> "InstallCoreVariablesOffline", n |-> CallCount + 1,
                            path |-> path, home |-> userHome, failAt |-> failAt,
                            err |-> r.err, artifact |-> <<>>,
                            before |-> h0.home, after |-> r.host.home]>>
    /\ UNCHANGED <<fixedVars, pc, exitCode, locals, trace, checks, fileVars, userVars, input>>

NextInstall == CallInstallCollections \/ CallInstallCoreVariables

SpecInstall == InitInstall /\ [][NextInstall]_vars

-----------------------------------------------------------------------------
(* Properties of the artifact installers *)

LastCall == calls[1]
IsCall(op) == calls # <<>> /\ LastCall.op = op

\* front-end invocations made by the latest call
NewInvocations == SubSeq(LastCall.after.galaxy, Len(LastCall.before.galaxy) + 1, Len(LastCall.after.galaxy))

Invoked(f) == Cardinality({i \in 1..Len(NewInvocations) : NewInvocations[i].file = f})

ArchiveEntry(e) == ~e.isDir /\ (HasSuffix(e.name, <<".tar", ".gz">>) \/ HasSuffix(e.name, <<".tgz">>))

\* C13: a successful installation of collections from a directory invokes the
\* front-end exactly once for each regular file directly in the directory whose
\* name ends in .tar.gz or .tgz and for no other entry; from a single file it
\* invokes the front-end exactly once, for that file.
C13_OncePerArchive ==
    (IsCall("InstallCollectionsOffline") /\ LastCall.err = "") =>
        LET info == FS(LastCall.path) IN
        IF info.isDir
        THEN /\ \A i \in 1..Len(info.entries) :
                  Invoked(<<LastCall.path, info.entries[i].name>>)
                      = IF ArchiveEntry(info.entries[i]) THEN 1 ELSE 0
             /\ Len(NewInvocations)
                  = Cardinality({i \in 1..Len(info.entries) : ArchiveEntry(info.entries[i])})
        ELSE /\ Len(NewInvocations) = 1
             /\ NewInvocations[1].file = <<LastCall.path>>

\* a directory holding two archives, a text file and a sub-directory with an
\* archive name was installed with two invocations
C13_Witness ==
    /\ IsCall("InstallCollectionsOffline") /\ LastCall.err = ""
    /\ LastCall.path = "/srv/collections"
    /\ Len(FS("/srv/collections").entries) = 4
    /\ Len(NewInvocations) = 2

\* the latest call ended on a failing front-end invocation
InstallFailed ==
    /\ IsCall("InstallCollectionsOffline") /\ LastCall.err # ""
    /\ Len(NewInvocations) > 0

\* the last path element of the file handed to the failing invocation
FailedName ==
    LET f == NewInvocations[Len(NewInvocations)].file
    IN  IF Len(f) = 2 THEN f[2] ELSE FS(f[1]).name

\* the failing invocation is the last one of the call, the ones before it
\* succeeded, and what the home held before the call is still there
StopsAtFailure ==
    LET n == Len(NewInvocations) IN
    /\ ~NewInvocations[n].ok
    /\ \A j \in 1..(n - 1) : NewInvocations[j].ok
    /\ SubSeq(LastCall.after.galaxy, 1, Len(LastCall.before.galaxy)) = LastCall.before.galaxy
    /\ FS(LastCall.path).isDir =>
         \A i \in 1..Len(FS(LastCall.path).entries) :
             Invoked(<<LastCall.path, FS(LastCall.path).entries[i].name>>) <= 1

\* C14 as stated: whenever the installation of one artifact fails, the error
\* names the failing artifact, no later artifact is attempted and the earlier
\* ones remain installed.
C14_ErrorNamesArtifact ==
    InstallFailed => (LastCall.artifact = FailedName /\ StopsAtFailure)

\* C14 (amended): when the installation of one artifact fails, no later artifact
\* is attempted and the artifacts installed earlier remain installed; the error
\* names the failing artifact when the path is a directory, and carries no
\* artifact name when the path is a single file.
C14_FailureStopsLoop ==
    InstallFailed =>
        /\ StopsAtFailure
        /\ LastCall.artifact = IF FS(LastCall.path).isDir THEN FailedName ELSE <<>>

\* the first of two archives failed: one invocation, the second archive untouched
C14_Witness ==
    /\ InstallFailed /\ LastCall.path = "/srv/collections"
    /\ Len(NewInvocations) = 1
    /\ LastCall.artifact = <<"bb-infra", ".tar", ".gz">>
    /\ Invoked(<<"/srv/collections", <<"general", ".tgz">>>>) = 0

\* what the files of group_vars/all hold under a name (empty when there is none)
DataOf(files, name) == {files[i].data : i \in {j \in 1..Len(files) : files[j].name = name}}
NamesOf(files) == {files[i].name : i \in 1..Len(files)}

YamlEntry(e) == ~e.isDir /\ (HasSuffix(e.name, <<".yml">>) \/ HasSuffix(e.name, <<".yaml">>))

\* C19: after a successful InstallCoreVariablesOffline, a single source file's
\* content is at group_vars/all/bb_core.yml whatever its name; from a directory,
\* every regular file directly in it ending in .yml or .yaml is there under its
\* own name with the source's content, replacing a file of that name, and every
\* other name holds what it held before the call.
C19_CoreVariablesCopied ==
    (IsCall("InstallCoreVariablesOffline") /\ LastCall.err = "") =>
        LET info == FS(LastCall.path)
            b    == LastCall.before.groupVars
            a    == LastCall.after.groupVars
            es   == info.entries
            copied == IF info.isDir
                      THEN {es[i].name : i \in {j \in 1..Len(es) : YamlEntry(es[j])}}
                      ELSE {<<"bb_core", ".yml">>}
            all  == NamesOf(a) \cup NamesOf(b) \cup {es[i].name : i \in 1..Len(es)} \cup {info.name}
        IN  /\ LastCall.after.groupVarsDir
            /\ \A n \in copied :
                  DataOf(a, n) = { IF info.isDir THEN <<"bytes of", LastCall.path, n>>
                                                 ELSE <<"bytes of", LastCall.path>> }
            /\ \A n \in all \ copied : DataOf(a, n) = DataOf(b, n)

\* a directory was installed over the bb_core.yml left by a single-file call
C19_Witness ==
    /\ IsCall("InstallCoreVariablesOffline") /\ LastCall.err = ""
    /\ LastCall.path = "/srv/corevars"
    /\ DataOf(LastCall.before.groupVars, <<"bb_core", ".yml">>) = {<<"bytes of", "/srv/core.yml">>}
    /\ DataOf(LastCall.after.groupVars, <<"bb_core", ".yml">>) = {<<"bytes of", "/srv/corevars", <<"bb_core", ".yml">>>>}
    /\ NamesOf(LastCall.after.groupVars) = {<<"bb_core", ".yml">>, <<"site", ".yaml">>}

\* C20: both installers fail with an error when the account home is empty,
\* before creating any directory or invoking any tool; and when the source path
\* does not exist they fail leaving the destination tree as it was before the
\* call.
C20_FailFastLeavesTree ==
    calls # <<>> =>
        /\ LastCall.home = "" => (LastCall.err # "" /\ LastCall.after = LastCall.before)
        /\ ~FS(LastCall.path).exists => (LastCall.err # "" /\ LastCall.after = LastCall.before)

-----------------------------------------------------------------------------
(* DetectOS and CheckRequirementsPrerequisites applied to one input *)

MaxVersionParts == 3             \* pieces a VERSION_ID value is made of

RawIDs == {"rhel", "centos", "rocky", "almalinux", "sles", "opensuse-leap", "ubuntu", "debian",
           "fedora", "arch", "Ubuntu"}

VersionPieces == { <<"8">>, <<"9">>, <<"1">>, <<".">>, <<"-">>, Stream, <<"S", "t", "r", "e", "a", "m">> }

RECURSIVE Flatten(_)
Flatten(ps) == IF ps = <<>> THEN <<>> ELSE Head(ps) \o Flatten(Tail(ps))

RawVersions == {Flatten(ps) : ps \in SeqsUpTo(VersionPieces, MaxVersionParts)}

\* the value of a key, written with or without double quotes
Written(v, quoted) == IF quoted THEN <<Quote>> \o v \o <<Quote>> ELSE v

\* /etc/os-release holding the two keys DetectOS reads, between other lines
OSReleaseOf(id, ver, quoted) ==
    [readable |-> TRUE,
     lines |-> << <<"NAME=", Quote, "Linux", Quote>>,
                  <<"ID=">> \o Written(<<id>>, quoted),
                  <<"ID_LIKE=", "other">>,
                  <<"VERSION_ID=">> \o Written(ver, quoted) >>]

OSInputs ==
    {[kind |-> "os", id |-> id, ver |-> ver, osRelease |-> OSReleaseOf(id, ver, q)] :
        id \in RawIDs, ver \in RawVersions, q \in BOOLEAN}

RequirementsPaths == {"/srv/missing", "/srv/empty", "/srv/notes.txt", "/srv/noreq", "/srv/tgzonly",
                      "/srv/reqonly", "/srv/reqsub", "/srv/reqsrc", "/srv/requirements"}

PathInputs == {[kind |-> "path", path |-> pth] : pth \in RequirementsPaths}

InitPure ==
    /\ IdleRun /\ IdleFile /\ IdleUser
    /\ input \in OSInputs \cup PathInputs
    /\ calls = <<>>

ApplyDetectOS ==
    /\ mode = "none" /\ calls = <<>> /\ input.kind = "os"
    /\ LET r == DetectOS(input.osRelease)
       IN  calls' = <<[op |-> "DetectOS", name |-> r.name, version |-> r.version, err |-> r.err]>>
    /\ UNCHANGED <<runVars, fileVars, userVars, input>>

ApplyCheckRequirements ==
    /\ mode = "none" /\ calls = <<>> /\ input.kind = "path"
    /\ calls' = <<[op |-> "CheckRequirementsPrerequisites",
                   err |-> CheckRequirementsPrerequisites(input.path)]>>
    /\ UNCHANGED <<runVars, fileVars, userVars, input>>

NextPure == ApplyDetectOS \/ ApplyCheckRequirements

SpecPure == InitPure /\ [][NextPure]_vars

-----------------------------------------------------------------------------
(* Properties of DetectOS *)

Detected == calls # <<>> /\ calls[1].op = "DetectOS"

\* the part of a version before its first dot, the whole of it without a dot
MajorOf(v) ==
    LET dots == {i \in 1..Len(v) : v[i] = "."}
    IN  IF dots = {} THEN v
        ELSE SubSeq(v, 1, (CHOOSE i \in dots : \A j \in dots : i <= j) - 1)

HasDigit(v, d) == \E i \in 1..Len(v) : v[i] = d

\* "stream" in lower case letters
HasStream(v) == \E i \in 1..(Len(v) - 5) : SubSeq(v, i, i + 5) = <<"s", "t", "r", "e", "a", "m">>

\* "stream" in any letter case
HasStreamAnyCase(v) ==
    \E i \in 1..(Len(v) - 5) :
        /\ v[i] \in {"s", "S"} /\ v[i + 1] \in {"t", "T"} /\ v[i + 2] \in {"r", "R"}
        /\ v[i + 3] \in {"e", "E"} /\ v[i + 4] \in {"a", "A"} /\ v[i + 5] \in {"m", "M"}

\* C15 as stated: for family rhel a version containing "stream" and "8" resolves
\* to "8", one containing "stream" and "9" resolves to "9", and any other version
\* resolves to its part before the first "."; for every other family the version
\* is the VERSION_ID value without its quotes.
C15_VersionAsStated ==
    Detected =>
        IF calls[1].name = <<"rhel">>
        THEN /\ (HasStream(input.ver) /\ HasDigit(input.ver, "8")) => calls[1].version = <<"8">>
             /\ (HasStream(input.ver) /\ HasDigit(input.ver, "9") /\ ~HasDigit(input.ver, "8"))
                    => calls[1].version = <<"9">>
             /\ ~(HasStream(input.ver) /\ (HasDigit(input.ver, "8") \/ HasDigit(input.ver, "9")))
                    => calls[1].version = MajorOf(input.ver)
        ELSE calls[1].version = input.ver

\* C15 (amended): for family rhel a version containing "stream" in any letter
\* case resolves to "8" when it contains "8", otherwise to "9" when it contains
\* "9", and otherwise stays as it is; a version without "stream" resolves to its
\* part before the first "."; for every other family the version is the
\* VERSION_ID value without its quotes.
C15_VersionNormalized ==
    Detected =>
        IF calls[1].name = <<"rhel">>
        THEN IF HasStreamAnyCase(input.ver)
             THEN calls[1].version = IF HasDigit(input.ver, "8") THEN <<"8">>
                                     ELSE IF HasDigit(input.ver, "9") THEN <<"9">>
                                     ELSE input.ver
             ELSE calls[1].version = MajorOf(input.ver)
        ELSE calls[1].version = input.ver

\* centos with VERSION_ID 9-stream was detected as rhel 9
C15_Witness ==
    /\ Detected /\ input.id = "centos"
    /\ input.ver = <<"9", "-", "s", "t", "r", "e", "a", "m">>
    /\ calls[1].name = <<"rhel">> /\ calls[1].version = <<"9">>

\* C16: rhel, centos, rocky and almalinux resolve to family rhel, sles and
\* opensuse-leap to opensuse-leap, ubuntu and debian to themselves; any other
\* identifier passes through unchanged and without an error, and it is the table
\* lookup that finds no entry for it.
C16_FamilyNormalized ==
    Detected =>
        /\ calls[1].err = ""
        /\ calls[1].name =
             IF input.id \in {"rhel", "centos", "rocky", "almalinux"} THEN <<"rhel">>
             ELSE IF input.id \in {"sles", "opensuse-leap"} THEN <<"opensuse-leap">>
             ELSE <<input.id>>
        /\ input.id \notin {"rhel", "centos", "rocky", "almalinux", "sles", "opensuse-leap",
                            "ubuntu", "debian"}
             => FindDefinition(calls[1].name, calls[1].version, 1) = NoDefinition

\* an identifier the table does not know came back as it was
C16_Witness ==
    /\ Detected /\ input.id = "fedora"
    /\ calls[1].name = <<"fedora">> /\ calls[1].err = ""

-----------------------------------------------------------------------------
(* Properties of CheckRequirementsPrerequisites *)

Validated == calls # <<>> /\ calls[1].op = "CheckRequirementsPrerequisites"

PackageEntry(e) ==
    ~e.isDir /\ (HasSuffix(e.name, <<".whl">>) \/ HasSuffix(e.name, <<".tar", ".gz">>)
                 \/ HasSuffix(e.name, <<".tgz">>))

\* C17: the path is accepted if and only if it exists, holds an entry named
\* requirements.txt and holds at least one regular file whose name ends in .whl,
\* .tar.gz or .tgz; without requirements.txt it is rejected whatever archives
\* it holds.
C17_RequirementsAccepted ==
    Validated =>
        LET info == FS(input.path)
            es   == info.entries
        IN  (calls[1].err = "") <=>
                /\ info.exists
                /\ \E i \in 1..Len(es) : es[i].name = <<"requirements", ".txt">>
                /\ \E i \in 1..Len(es) : PackageEntry(es[i])

\* a directory of archives without requirements.txt was rejected
C17_Witness ==
    /\ Validated /\ input.path = "/srv/tgzonly"
    /\ \E i \in 1..Len(FS("/srv/tgzonly").entries) : PackageEntry(FS("/srv/tgzonly").entries[i])
    /\ calls[1].err # ""

-----------------------------------------------------------------------------
(* The status command (cmd/status.go, in both of its forms) *)

\* paths below the account home; HomeDir is the home itself
HomeDir        == "."
VenvDir        == "ansible_venv"
ActivateScript == "ansible_venv/bin/activate"
AnsiblePath    == "ansible_venv/bin/ansible"
GalaxyPath     == "ansible_venv/bin/ansible-galaxy"
CollectionsDir == ".ansible/collections"
NamespaceDir   == ".ansible/collections/ansible_collections/bluebanquise"
InfraDir       == ".ansible/collections/ansible_collections/bluebanquise/infrastructure"
CoreVarsFile   == "bluebanquise/inventory/group_vars/all/bb_core.yml"

StatusPaths == {HomeDir, VenvDir, ActivateScript, AnsiblePath, GalaxyPath, CollectionsDir,
                NamespaceDir, InfraDir, CoreVarsFile}

\* the directory a path lies in
ParentOf(pth) ==
    CASE pth = VenvDir -> HomeDir [] pth = CollectionsDir -> HomeDir [] pth = CoreVarsFile -> HomeDir
      [] pth = ActivateScript -> VenvDir [] pth = AnsiblePath -> VenvDir [] pth = GalaxyPath -> VenvDir
      [] pth = NamespaceDir -> CollectionsDir [] pth = InfraDir -> NamespaceDir
      [] OTHER -> HomeDir

\* the trees a host can hold: nothing exists outside an existing directory
Trees == {t \in SUBSET StatusPaths : \A pth \in t : ParentOf(pth) \in t}

\* os.Stat(path) followed by os.IsNotExist(err)
IsNotExist(tree, pth) == pth \notin tree

checkBlueBanquiseUser(tree) ==
    IF IsNotExist(tree, HomeDir) THEN "user home directory not found" ELSE ""

checkPythonVenv(tree) ==
    IF IsNotExist(tree, VenvDir) THEN "Python virtual environment not found"
    ELSE IF IsNotExist(tree, ActivateScript) THEN "virtual environment activate script not found"
    ELSE ""

\* checkAnsibleInstallation without the ansible-galaxy test
checkAnsibleInstallation_NoGalaxy(tree) ==
    IF IsNotExist(tree, AnsiblePath) THEN "ansible not found in virtual environment" ELSE ""

checkAnsibleInstallation(tree) ==
    IF IsNotExist(tree, AnsiblePath) THEN "ansible not found in virtual environment"
    ELSE IF IsNotExist(tree, GalaxyPath) THEN "ansible-galaxy not found in virtual environment"
    ELSE ""

checkBlueBanquiseCollections(tree) ==
    IF IsNotExist(tree, NamespaceDir) THEN "BlueBanquise collections not found"
    ELSE IF IsNotExist(tree, InfraDir) THEN "BlueBanquise infrastructure collection not found"
    ELSE ""

\* statusCmd.Run: every check runs, the failures are printed, one failure is
\* enough for exit status 1
StatusChecks(tree) ==
    << checkBlueBanquiseUser(tree), checkPythonVenv(tree), checkAnsibleInstallation(tree),
       checkBlueBanquiseCollections(tree) >>

StatusRun(tree) ==
    LET errs  == StatusChecks(tree)
        allOK == \A k \in 1..Len(errs) : errs[k] = ""
    IN  [exitCode |-> IF allOK THEN 0 ELSE 1, errs |-> SelectSeq(errs, LAMBDA e : e # "")]

\* checkStatus, the form that looks the account up with id(1) and returns at
\* the first failing test; a missing bb_core.yml is a warning only
checkStatus(tree, account) ==
    IF ~account THEN "user home directory not found"
    ELSE IF IsNotExist(tree, VenvDir) THEN "python virtual environment not found"
    ELSE IF IsNotExist(tree, ActivateScript) THEN "virtual environment activate script not found"
    ELSE IF IsNotExist(tree, AnsiblePath) THEN "ansible not found in virtual environment"
    ELSE IF IsNotExist(tree, GalaxyPath) THEN "ansible-galaxy not found in virtual environment"
    ELSE IF IsNotExist(tree, CollectionsDir) THEN "bluebanquise collections not found"
    ELSE IF IsNotExist(tree, InfraDir) THEN "bluebanquise infrastructure collection not found"
    ELSE ""

StatusInputs == {[kind |-> "status", tree |-> t, account |-> a] : t \in Trees, a \in BOOLEAN}

InitStatus ==
    /\ IdleRun /\ IdleFile /\ IdleUser
    /\ input \in StatusInputs
    /\ calls = <<>>

\* bluebanquise-installer status --home <home>
RunStatus ==
    /\ mode = "none" /\ calls = <<>> /\ input.kind = "status"
    /\ LET r == StatusRun(input.tree)
       IN  calls' = <<[op |-> "status", exitCode |-> r.exitCode, errs |-> r.errs]>>
    /\ UNCHANGED <<runVars, fileVars, userVars, input>>

\* bluebanquise-installer status --user <name>, in the form built on checkStatus
RunCheckStatus ==
    /\ mode = "none" /\ calls = <<>> /\ input.kind = "status"
    /\ LET e == checkStatus(input.tree, input.account)
       IN  calls' = <<[op |-> "checkStatus", exitCode |-> IF e = "" THEN 0 ELSE 1,
                       errs |-> IF e = "" THEN <<>> ELSE <<e>>]>>
    /\ UNCHANGED <<runVars, fileVars, userVars, input>>

NextStatus == RunStatus \/ RunCheckStatus

SpecStatus == InitStatus /\ [][NextStatus]_vars

\* the account home, the environment directory with its activation script, both
\* binaries and the infrastructure collection directory exist in the tree
InstallationComplete(tree) ==
    {HomeDir, VenvDir, ActivateScript, AnsiblePath, GalaxyPath, InfraDir} \subseteq tree

-----------------------------------------------------------------------------
(* DownloadRequirements (internal/utils): the directory is its list of       *)
(* entries; the result carries the entries left behind and the order of the *)
(* writes and commands.                                                     *)

\* strings.Join(requirements, "\n")
RECURSIVE JoinNewline(_)
JoinNewline(rs) ==
    IF Len(rs) = 0 THEN <<>>
    ELSE IF Len(rs) = 1 THEN <<rs[1]>>
    ELSE <<Head(rs), NL>> \o JoinNewline(Tail(rs))

ReqTxt == <<"requirements", ".txt">>

\* os.WriteFile(requirementsFile, ...): the entry is created when it is missing
WithRequirementsFile(entries) ==
    IF \E i \in 1..Len(entries) : entries[i].name = ReqTxt THEN entries
    ELSE Append(entries, Ent(ReqTxt, FALSE))

\* what the download tool leaves in the directory: entries not yet there
Fetched(entries, fetched) ==
    entries \o SelectSeq(fetched, LAMBDA e : \A i \in 1..Len(entries) : entries[i].name # e.name)

DownloadResult(e, entries, log) == [err |-> e, entries |-> entries, log |-> log]

\* failAt: 1 = os.MkdirAll fails, 2 = os.WriteFile fails, 3 = the tool exits
\* non-zero, 0 = none of them
DownloadRequirements(requirements, entries, fetched, failAt) ==
    IF Len(requirements) = 0 THEN DownloadResult("no requirements provided", entries, <<>>)
    ELSE IF failAt = 1 THEN DownloadResult("failed to create download directory", entries, <<>>)
    ELSE IF failAt = 2 THEN DownloadResult("failed to create requirements.txt", entries, <<>>)
    ELSE LET written == WithRequirementsFile(entries)
             log == << [op |-> "WriteFile", data |-> JoinNewline(requirements)],
                       [op |-> "pip", data |-> <<"download", "-r", "requirements.txt", "-d", ".">>] >>
         IN  IF failAt = 3 THEN DownloadResult("failed to download requirements", written, log)
             ELSE DownloadResult("", Fetched(written, fetched), log)

\* the form that asks GetPythonCommand for the interpreter and counts the
\* package files in the directory afterwards
DownloadRequirementsVerified(requirements, entries, fetched, failAt, osRelease, interpreters) ==
    IF Len(requirements) = 0 THEN DownloadResult("no requirements provided", entries, <<>>)
    ELSE IF failAt = 1 THEN DownloadResult("failed to create download directory", entries, <<>>)
    ELSE IF failAt = 2 THEN DownloadResult("failed to create requirements.txt", entries, <<>>)
    ELSE LET written == WithRequirementsFile(entries)
             wrote   == <<[op |-> "WriteFile", data |-> JoinNewline(requirements)]>>
             py      == GetPythonCommand(osRelease, interpreters)
             log     == Append(wrote, [op |-> py.cmd,
                                       data |-> <<"-m", "pip", "download", "-r", "requirements.txt", "-d", ".">>])
             after   == Fetched(written, fetched)
             packageCount == Cardinality({i \in 1..Len(after) : PackageEntry(after[i])})
         IN  IF py.err # "" THEN DownloadResult("failed to get Python command", written, wrote)
             ELSE IF failAt = 3 THEN DownloadResult("failed to download requirements", written, log)
             ELSE IF packageCount = 0 THEN DownloadResult("no packages were downloaded", after, log)
             ELSE DownloadResult("", after, log)

-----------------------------------------------------------------------------
(* Calls of the functions of internal/utils on one host *)

MaxPackages == 2                 \* packages handed to one InstallPackages call

InterpreterSets == { {}, {"/usr/bin/python3"}, {"/usr/bin/python3", "/usr/bin/python3.12"},
                     {"/usr/bin/python3.9", "/usr/bin/python3.11"} }

RequirementsInputs ==
    [kind : {"requirements"}, path : RequirementsPaths, osRelease : OSReleases,
     interpreters : InterpreterSets, ok : BOOLEAN]

PackageNames == {"git", "curl"}

PackagesInputs ==
    [kind : {"packages"}, tools : SUBSET Range(Candidates),
     pkgs : SeqsUpTo(PackageNames, MaxPackages), ok : BOOLEAN]

MaxRequirements == 2             \* requirements handed to one DownloadRequirements call

\* the target directory before the call, and what the tool puts into it
DownloadDirs == { <<>>, <<Ent(<<"notes", ".txt">>, FALSE)>>, <<Ent(<<"six", ".whl">>, FALSE)>> }
FetchedSets  == { <<>>, <<Ent(<<"ansible", ".whl">>, FALSE)>>, <<Ent(<<"jinja2", ".tar", ".gz">>, FALSE)>>,
                  <<Ent(<<"cache", ".whl">>, TRUE)>>, <<Ent(<<"pip", ".log">>, FALSE)>> }

DownloadInputs ==
    [kind : {"download"}, requirements : SeqsUpTo({"ansible", "jinja2"}, MaxRequirements),
     entries : DownloadDirs, fetched : FetchedSets, failAt : 0..3,
     osRelease : {UbuntuJammy, Unreadable}, interpreters : {{}, {"/usr/bin/python3"}}]

InitUtils ==
    /\ IdleRun /\ IdleFile /\ IdleUser
    /\ input \in RequirementsInputs \cup PackagesInputs \cup DownloadInputs
    /\ calls = <<>>

utilsFrame == <<fixedVars, pc, exitCode, locals, trace, checks, fileVars, userVars, input>>

\* InstallRequirementsOffline as internal/utils/python.go has it
CallInstallRequirementsOffline ==
    /\ mode = "none" /\ calls = <<>> /\ input.kind = "requirements"
    /\ LET r == InstallRequirementsOffline(host, input.path, input.ok)
       IN  /\ host' = r.host
           /\ calls' = <<[op |-> "InstallRequirementsOffline", form |-> "pip", err |-> r.err]>>
    /\ UNCHANGED utilsFrame

\* InstallRequirementsOffline in the form built on GetPythonCommand
CallInstallRequirementsOfflinePython ==
    /\ mode = "none" /\ calls = <<>> /\ input.kind = "requirements"
    /\ LET r == InstallRequirementsOfflinePython(host, input.path, input.osRelease,
                                                 input.interpreters, input.ok)
       IN  /\ host' = r.host
           /\ calls' = <<[op |-> "InstallRequirementsOffline", form |-> "python -m pip", err |-> r.err]>>
    /\ UNCHANGED utilsFrame

CallInstallPackages ==
    /\ mode = "none" /\ calls = <<>> /\ input.kind = "packages"
    /\ LET r == InstallPackages([host EXCEPT !.pathTools = input.tools], input.pkgs, input.ok, {})
       IN  /\ host' = r.host
           /\ calls' = <<[op |-> "InstallPackages", err |-> r.err]>>
    /\ UNCHANGED utilsFrame

\* DownloadRequirements as internal/utils/python.go has it
CallDownloadRequirements ==
    /\ mode = "none" /\ calls = <<>> /\ input.kind = "download"
    /\ LET r == DownloadRequirements(input.requirements, input.entries, input.fetched, input.failAt)
       IN  calls' = <<[op |-> "DownloadRequirements", form |-> "pip", err |-> r.err,
                       entries |-> r.entries, log |-> r.log]>>
    /\ UNCHANGED <<utilsFrame, host>>

\* DownloadRequirements in the form that verifies what was downloaded
CallDownloadRequirementsVerified ==
    /\ mode = "none" /\ calls = <<>> /\ input.kind = "download"
    /\ LET r == DownloadRequirementsVerified(input.requirements, input.entries, input.fetched,
                                             input.failAt, input.osRelease, input.interpreters)
       IN  calls' = <<[op |-> "DownloadRequirements", form |-> "python -m pip", err |-> r.err,
                       entries |-> r.entries, log |-> r.log]>>
    /\ UNCHANGED <<utilsFrame, host>>

NextUtils ==
    \/ CallDownloadRequirements
    \/ CallDownloadRequirementsVerified
    \/ CallInstallRequirementsOffline
    \/ CallInstallRequirementsOfflinePython
    \/ CallInstallPackages

SpecUtils == InitUtils /\ [][NextUtils]_vars

Called(op) == calls # <<>> /\ calls[1].op = op

\* position of the first occurrence of x in s, 0 when there is none
IndexOf(s, x) ==
    IF \E i \in 1..Len(s) : s[i] = x THEN CHOOSE i \in 1..Len(s) : s[i] = x /\ \A j \in 1..(i - 1) : s[j] # x
    ELSE 0

\* C21: offline package population fails when the directory has no
\* requirements.txt, and otherwise makes one invocation of the front-end that
\* belongs to the environment under <home>/ansible_venv, carrying --no-index and
\* --find-links <directory>.
C21_VenvFrontEndLocalOnly ==
    Called("InstallRequirementsOffline") =>
        LET es  == FS(input.path).entries
            log == host.home.pip
        IN  IF \E i \in 1..Len(es) : es[i].name = <<"requirements", ".txt">>
            THEN /\ Len(log) = 1
                 /\ log[1].cmd = "ansible_venv/bin/pip"
                 /\ IndexOf(log[1].args, "--no-index") > 0
                 /\ IndexOf(log[1].args, "--find-links") > 0
                 /\ log[1].args[IndexOf(log[1].args, "--find-links") + 1] = input.path
            ELSE calls[1].err # "" /\ log = <<>>

\* what the search path selects, in the order apt-get, dnf, yum, zypper
SelectedManager(tools) ==
    IF "apt-get" \in tools THEN "apt-get"
    ELSE IF "dnf" \in tools THEN "dnf"
    ELSE IF "yum" \in tools THEN "yum"
    ELSE IF "zypper" \in tools THEN "zypper"
    ELSE ""

\* C22: InstallPackages selects the first of apt-get, dnf, yum, zypper on the
\* search path; with none it fails and runs nothing; otherwise it runs exactly
\* one invocation of that manager with all packages in their order ('install -y'
\* for apt-get, dnf, yum; '--non-interactive install' for zypper), and returns
\* an error exactly when detection fails or the invocation exits non-zero.
C22_OneManagerInvocation ==
    Called("InstallPackages") =>
        LET m == SelectedManager(input.tools) IN
        /\ m = "" => (calls[1].err # "" /\ host.pkgLog = <<>>)
        /\ m # "" =>
             /\ Len(host.pkgLog) = 1
             /\ host.pkgLog[1].manager = m
             /\ host.pkgLog[1].args =
                  (IF m = "zypper" THEN <<"--non-interactive", "install">> ELSE <<"install", "-y">>)
                  \o input.pkgs
        /\ (calls[1].err # "") <=> (m = "" \/ ~input.ok)

\* dnf and yum are both on the path and dnf was run with both packages
C22_Witness ==
    /\ Called("InstallPackages") /\ input.tools = {"dnf", "yum", "zypper"}
    /\ input.pkgs = <<"git", "curl">> /\ input.ok
    /\ host.pkgLog = <<[manager |-> "dnf", args |-> <<"install", "-y", "git", "curl">>]>>
    /\ calls[1].err = ""

-----------------------------------------------------------------------------
(* Properties of the package manager over one run *)

\* C23: within one run every package-manager invocation uses the same manager,
\* also when an earlier installation step has put a higher-priority manager on
\* the search path.
C23_OneManagerPerRun ==
    mode \in {"online", "offline"} =>
        \A i, j \in 1..Len(host.pkgLog) : host.pkgLog[i].manager = host.pkgLog[j].manager

-----------------------------------------------------------------------------
(* Calls of the environment builder on one host *)

MaxEnvCalls == 2                 \* builder calls in one behaviour

\* the builder is called on a fresh host, and again on a host the call before
\* has configured
MayCallBuilder ==
    mode = "none" /\ (IF calls = <<>> THEN TRUE ELSE calls[1].n < MaxEnvCalls /\ calls[1].err = "")

CentOS7 == OSReleaseOf("centos", <<"7">>, TRUE)
RHEL89  == OSReleaseOf("rhel", <<"8", ".", "9">>, TRUE)

EnvReleases == {CentOS7, RHEL89, Rocky93, Leap155, UbuntuJammy, Unreadable}

\* .bashrc before the first call: none, or one whose last line has no newline
Bashrcs == {Absent, FileOf(<<"alias ll='ls -l'", NL, "umask 022">>)}

InitEnv ==
    /\ mode = "none" /\ pc = "idle" /\ exitCode = Running
    /\ flags \in [collectionsPath : {""}, tarballPath : {""}, requirementsPath : {"", "/srv/requirements"},
                  coreVarsPath : {""}, userName : {"bluebanquise"}, userHome : {"/var/lib/bluebanquise"},
                  skipEnvironment : {FALSE}]
    /\ env \in [euidRoot : {TRUE}, python3 : {TRUE}, internet : {TRUE}, osRelease : EnvReleases]
    /\ host \in {[FreshHost(tools) EXCEPT !.home.exists = TRUE, !.home.bashrc = rc] :
                    tools \in {{"apt-get", "yum"}}, rc \in Bashrcs}
    /\ host0 = host
    /\ osID = <<>> /\ version = <<>> /\ packages = <<>> /\ postHook = ""
    /\ trace = <<>> /\ checks = <<>>
    /\ IdleFile /\ IdleUser /\ IdleLib

envFrame == <<fixedVars, pc, exitCode, locals, trace, checks, fileVars, userVars, input>>

\* the record of a builder call: form, outcome, the host before and after
EnvCall(op, form, failAt, r) ==
    [op |-> op, form |-> form, n |-> CallCount + 1, failAt |-> failAt, err |-> r.err,
     name |-> DetectOS(env.osRelease).name, version |-> DetectOS(env.osRelease).version,
     before |-> host, after |-> r.host]

CallConfigureEnvironment ==
    /\ MayCallBuilder
    /\ \E failAt \in 0..(MaxEnvSteps + 1) :
         LET r == ConfigureEnvironment(host, EnvContext, failAt) IN
         /\ host' = r.host
         /\ calls' = <<EnvCall("ConfigureEnvironment", "platform interpreter", failAt, r)>>
    /\ UNCHANGED envFrame

CallConfigureEnvironmentOffline ==
    /\ MayCallBuilder
    /\ \E failAt \in 0..(MaxEnvSteps + 1) :
         LET r == ConfigureEnvironmentOffline(host, EnvContext, failAt) IN
         /\ host' = r.host
         /\ calls' = <<EnvCall("ConfigureEnvironmentOffline", "platform interpreter", failAt, r)>>
    /\ UNCHANGED envFrame

CallConfigureEnvironmentGeneric ==
    /\ MayCallBuilder
    /\ \E failAt \in 0..(MaxEnvSteps + 1), m \in {"online", "offline"} :
         LET r == ConfigureEnvironmentGeneric(host, EnvContext, m, failAt) IN
         /\ host' = r.host
         /\ calls' = <<EnvCall(IF m = "online" THEN "ConfigureEnvironment" ELSE "ConfigureEnvironmentOffline",
                               "/usr/bin/python3", failAt, r)>>
    /\ UNCHANGED envFrame

NextEnv ==
    \/ CallConfigureEnvironment
    \/ CallConfigureEnvironmentOffline
    \/ CallConfigureEnvironmentGeneric

SpecEnv == InitEnv /\ [][NextEnv]_vars

BuilderCalled == calls # <<>> /\ LastCall.op \in {"ConfigureEnvironment", "ConfigureEnvironmentOffline"}

\* the interpreter of a resolved identity
InterpreterOf(id, ver) ==
    IF id = <<"rhel">> /\ ver = <<"7">> THEN "/opt/rh/rh-python38/root/usr/bin/python3"
    ELSE IF id = <<"rhel">> /\ ver = <<"8">> THEN "/usr/bin/python3.9"
    ELSE IF id = <<"rhel">> /\ ver = <<"9">> THEN "/usr/bin/python3.12"
    ELSE IF id = <<"opensuse-leap">> THEN "/usr/bin/python3.11"
    ELSE "/usr/bin/python3"

\* creation commands run by the latest builder call
NewVenvCommands ==
    SubSeq(LastCall.after.home.venvLog, Len(LastCall.before.home.venvLog) + 1,
           Len(LastCall.after.home.venvLog))

\* the lines the builder itself adds to .bashrc
BuilderLines == {"/ansible_venv/bin/activate", "export ANSIBLE_CONFIG=$HOME/bluebanquise/ansible.cfg"}

\* C24: the environment is created with the interpreter of the resolved
\* identity (rhel 7: rh-python38, rhel 8: python3.9, rhel 9: python3.12,
\* opensuse-leap: python3.11, any other: /usr/bin/python3) and not with a
\* generic one; when the creation command fails the builder returns an error
\* with no package populated and none of its lines added to the startup file.
C24_PlatformInterpreter ==
    BuilderCalled =>
        /\ \A i \in 1..Len(NewVenvCommands) :
              NewVenvCommands[i] = InterpreterOf(LastCall.name, LastCall.version)
        /\ (NewVenvCommands # <<>> /\ LastCall.after.home.venv = LastCall.before.home.venv
            /\ LastCall.before.home.venv = "") =>
              /\ LastCall.err # ""
              /\ LastCall.after.home.pip = LastCall.before.home.pip
              /\ \A l \in BuilderLines :
                    l \in Range(LastCall.after.home.bashrc.data) => l \in Range(LastCall.before.home.bashrc.data)

\* C28: configuring the environment a second time on the same host leaves
\* .bashrc as the first configuration left it, on every platform, rhel 7
\* included.
C28_BashrcUnchangedBySecondRun ==
    (BuilderCalled /\ LastCall.n > 1 /\ LastCall.err = "") =>
        LastCall.after.home.bashrc = LastCall.before.home.bashrc

\* C25: DownloadRequirements writes the requirements, joined by newlines, to
\* requirements.txt in the target directory before it invokes the download
\* tool, and returns success only if the directory afterwards holds at least
\* one regular file whose name ends in .whl, .tar.gz or .tgz; with none it
\* returns an error even when the tool succeeded.
C25_DownloadVerified ==
    Called("DownloadRequirements") =>
        LET log == calls[1].log
            es  == calls[1].entries
        IN  /\ \A k \in 1..Len(log) : log[k].op # "WriteFile" =>
                   /\ k > 1 /\ log[1].op = "WriteFile"
                   /\ log[1].data = JoinNewline(input.requirements)
                   /\ \E i \in 1..Len(es) : es[i].name = ReqTxt /\ ~es[i].isDir
            /\ calls[1].err = "" =>
                   /\ \E k \in 1..Len(log) : log[k].op # "WriteFile"
                   /\ \E i \in 1..Len(es) : PackageEntry(es[i])

\* C26: whenever AppendLineIfMissing has returned success, the file holds a
\* line whose trimmed text equals the trimmed requested line, whatever the
\* file held at the start, a last line without a final newline included.
C26_LinePresentAfterSuccess ==
    (fcalls > 0 /\ ferr[Len(ferr)] = "") => Occurrences(file, line) >= 1

-----------------------------------------------------------------------------
(* Repeated calls of ConfigureSSH on one home directory, with keys of other *)
(* origin appended to authorized_keys between the calls                     *)

MaxSSHCalls == 3                 \* calls of ConfigureSSH in one behaviour
MaxForeignKeys == 2              \* keys appended by others in one behaviour

ForeignKeys == { <<"ssh-ed25519 ADMIN", NL>>, <<"ssh-rsa BACKUP", NL>> }

\* homes before the first call: no key pair yet, or a key pair made earlier by
\* hand; authorized_keys absent, empty or holding a key of someone else
SSHHomes ==
    { [FreshHome EXCEPT !.exists = TRUE, !.sshDir = k, !.sshKey = k, !.authorizedKeys = a] :
        k \in BOOLEAN, a \in {Absent, FileOf(<<>>)} \cup {FileOf(f) : f \in ForeignKeys} }

InitSSH ==
    /\ IdleRun /\ IdleFile /\ IdleUser
    /\ input \in [kind : {"ssh"}, home : SSHHomes]
    /\ calls = <<[op |-> "none", n |-> 0, err |-> "", keygens |-> 0, foreign |-> 0,
                  home |-> input.home]>>

CallConfigureSSH ==
    /\ mode = "none" /\ calls[1].n < MaxSSHCalls
    /\ \E ok \in BOOLEAN :
         LET r == ConfigureSSH(calls[1].home, ok)
         IN  calls' = <<[calls[1] EXCEPT !.op = "ConfigureSSH", !.n = @ + 1, !.err = r.err,
                                         !.keygens = IF r.home.sshKey /\ ~calls[1].home.sshKey
                                                     THEN @ + 1 ELSE @,
                                         !.home = r.home]>>
    /\ UNCHANGED <<runVars, fileVars, userVars, input>>

\* an administrator adds a key to the account's authorized_keys
AppendForeignKey ==
    /\ mode = "none" /\ calls[1].foreign < MaxForeignKeys
    /\ calls[1].home.authorizedKeys.exists
    /\ \E f \in ForeignKeys :
         calls' = <<[calls[1] EXCEPT !.op = "append", !.foreign = @ + 1,
                                     !.home.authorizedKeys = FileOf(@.data \o f)]>>
    /\ UNCHANGED <<runVars, fileVars, userVars, input>>

NextSSH == CallConfigureSSH \/ AppendForeignKey

SpecSSH == InitSSH /\ [][NextSSH]_vars

\* how often the account's own public key occurs in authorized_keys
OwnKeyCount(f) == Cardinality({k \in 1..Len(f.data) : f.data[k] = OwnPubKey[1]})

\* C30: after any sequence of ConfigureSSH runs, other keys having been
\* appended between them or not, the account's own public key occurs exactly
\* once in authorized_keys, and a key pair that existed is never generated anew.
C30_OwnKeyExactlyOnce ==
    /\ (calls[1].op = "ConfigureSSH" /\ calls[1].err = "") =>
           OwnKeyCount(calls[1].home.authorizedKeys) = 1
    /\ calls[1].keygens <= (IF input.home.sshKey THEN 0 ELSE 1)

-----------------------------------------------------------------------------
(* Artifacts installed by an offline run *)

\* the file name of what one ansible-galaxy invocation was handed
ArtifactName(g) == IF Len(g.file) = 2 THEN g.file[2] ELSE FS(g.file[1]).name

\* C29: an offline run that exits with 0 has invoked the collection front-end
\* at least once, and every artifact it handed to the front-end has a name
\* ending in .tar.gz or .tgz.
C29_SuccessInstallsArtifact ==
    (mode = "offline" /\ exitCode = 0) =>
        /\ Len(host.home.galaxy) >= 1
        /\ \A k \in 1..Len(host.home.galaxy) :
               \/ HasSuffix(ArtifactName(host.home.galaxy[k]), TarGz)
               \/ HasSuffix(ArtifactName(host.home.galaxy[k]), Tgz)

-----------------------------------------------------------------------------
(* Successive runs of the installer on one host *)

MaxRuns == 2                     \* runs in one behaviour

RunsFlags(m) ==
    [collectionsPath : IF m = "offline" THEN {"/srv/collections"} ELSE {""},
     tarballPath : {""}, requirementsPath : {""}, coreVarsPath : {""},
     userName : RunUserNames, userHome : RunUserHomes, skipEnvironment : BOOLEAN]

\* some file under /etc/sudoers.d holds the rule as one of its lines
HasSudoersRule(db, rule) ==
    \E i \in 1..Len(db.sudoers) :
        \E k \in 1..Len(SplitLines(db.sudoers[i].data, <<>>)) :
            TrimSpace(SplitLines(db.sudoers[i].data, <<>>)[k]) = rule

\* the account's grant rule and the env_keep rule are both in place
BothRules(db, userName) ==
    HasSudoersRule(db, GrantRule(userName)) /\ HasSudoersRule(db, EnvKeepRule)

\* calls[1].n counts the runs started; calls[1].left holds the accounts whose
\* grant rule an earlier successful run left in place together with env_keep
InitRuns ==
    /\ mode \in {"online", "offline"}
    /\ flags \in RunsFlags(mode)
    /\ env \in [euidRoot : {TRUE}, python3 : {TRUE}, internet : {TRUE},
                 osRelease : {UbuntuJammy, UbuntuFocal}]
    /\ host = FreshHost({"apt-get"})
    /\ host0 = host
    /\ pc = "start" /\ exitCode = Running
    /\ osID = <<>> /\ version = <<>> /\ packages = <<>> /\ postHook = ""
    /\ trace = <<>> /\ checks = <<>>
    /\ IdleFile /\ IdleUser
    /\ input = <<>> /\ calls = <<[n |-> 1, left |-> {}]>>

\* the operator starts the installer again after a run that exited with 0
RunAgain ==
    /\ pc = "exit" /\ exitCode = 0 /\ calls[1].n < MaxRuns
    /\ mode' \in {"online", "offline"}
    /\ flags' \in RunsFlags(mode')
    /\ host0' = host
    /\ pc' = "start" /\ exitCode' = Running
    /\ osID' = <<>> /\ version' = <<>> /\ packages' = <<>> /\ postHook' = ""
    /\ trace' = <<>> /\ checks' = <<>>
    /\ calls' = <<[n |-> calls[1].n + 1,
                   left |-> calls[1].left \cup {u \in RunUserNames : BothRules(host.db, u)}]>>
    /\ UNCHANGED <<env, host, fileVars, userVars, input>>

NextRuns == Next \/ RunAgain

SpecRuns == InitRuns /\ [][NextRuns]_vars

\* C27: once a run has left an account's passwordless grant rule and the rule
\* Defaults env_keep += "PYTHONPATH" under /etc/sudoers.d, both are in place
\* after every further run that exits with 0, whatever its flags
\* (--skip-environment included) and its account name.
C27_SudoersRulesKept ==
    (pc = "exit" /\ exitCode = 0) =>
        \A u \in calls[1].left : BothRules(host.db, u)

====
